---------------------------- MODULE Spec2Model ----------------------------
(***************************************************************************)
(* A model of the physics core of ZombiesPlanet: PhysicsWorld (body lists, *)
(* fixed-step scheduler, collision pass), PhysicsBody (integration),       *)
(* the sphere / box colliders and PlanetBody (radial gravity).             *)
(*                                                                         *)
(* Numbers.  The source computes in IEEE doubles; the model computes in    *)
(* fixed point.  One metre (and one metre per second) is Unit steps, one   *)
(* second is Unit ticks, so that fixedTimeStep = 1 / physicsFPS is a whole *)
(* number of ticks.  Every product that the source rounds to a double is   *)
(* rounded here to the nearest step (RDiv).  Comparisons of distances are  *)
(* made on the exact squares wherever the source compares two lengths.     *)
(* Masses are whole numbers and invMass is kept as an exact fraction       *)
(* <<numerator, denominator>>.  Restitution is kept in tenths.             *)
(***************************************************************************)
EXTENDS Integers, Sequences, FiniteSets, TLC

VARIABLES
    bodies,        \* PhysicsWorld.bodies: sequence of dynamic bodies
    staticBodies,  \* PhysicsWorld.staticBodies
    planetBody,    \* PhysicsWorld.planetBody (NoPlanet when null)
    accumulator,   \* PhysicsWorld.accumulator, in ticks
    player,        \* engine.player (NoPlayer when null)
    pc,            \* position inside PhysicsWorld.update: "idle" | "loop"
    substep,       \* the local counter of update()'s loop
    stepDts,       \* the timeSteps handed to fixedUpdate by the current/last update()
    frame,         \* what the current/last update() call started from
    budget,        \* sub-steps the run may still execute (bounds the run)
    run,           \* the scenario the run started from (name, frame deltas)
    last,          \* the last world operation: name, argument, result, lists before;
                   \* for a sub-step its timeStep, resolved contacts and trace of passes
    prev,          \* the operation before it: name, argument; for a sub-step the
                   \* lists it started from
    probe,         \* input and output of the pure functions under test
    objects,       \* the entities constructed so far, by name (the heap)
    entityManager, \* EntityManager: entities (names), nextEntityId
    tasks,         \* callbacks not run yet: setTimeout timers, awaited continuations
    engine,        \* Engine: isRunning, isPaused
    weapon,        \* the player's Weapon
    assets,        \* AssetManager: caches and loadingPromises
    now            \* the clock (performance.now(), Date.now()), in ms

\* the game around the physics world
gameVars == <<objects, entityManager, tasks, engine, weapon, assets, now>>

vars == <<bodies, staticBodies, planetBody, accumulator, player, pc, substep,
          stepDts, frame, budget, run, last, prev, probe, gameVars>>

\* nothing of the game is set up: the physics world is driven on its own
NoGame ==
    /\ objects = <<>> /\ entityManager = 0 /\ tasks = {} /\ engine = 0
    /\ weapon = 0 /\ assets = 0 /\ now = 0

-----------------------------------------------------------------------------
(* Units and fixed-point arithmetic                                        *)

physicsFPS == 120

\* Steps per metre and ticks per second.
Unit == physicsFPS * 10

Abs(a) == IF a < 0 THEN -a ELSE a

Min(a, b) == IF a <= b THEN a ELSE b

Max(a, b) == IF a >= b THEN a ELSE b

\* a / b rounded to the nearest whole number (b > 0), as a double rounds.
RDiv(a, b) == IF a >= 0 THEN (a + b \div 2) \div b ELSE -((b \div 2 - a) \div b)

RECURSIVE SqrtSearch(_, _, _)
SqrtSearch(n, lo, hi) ==
    IF lo >= hi THEN lo
    ELSE LET mid == (lo + hi + 1) \div 2
         IN  IF mid * mid <= n THEN SqrtSearch(n, mid, hi)
             ELSE SqrtSearch(n, lo, mid - 1)

\* Math.sqrt, rounded to the nearest whole number.
Sqrt(n) ==
    LET s == SqrtSearch(n, 0, 46340)
    IN  IF n - s * s > s THEN s + 1 ELSE s

\* Metres (or m/s) given in thousandths, in steps.
Milli(m) == RDiv(m * Unit, 1000)

-----------------------------------------------------------------------------
(* three.js Vector3, as far as the source uses it                          *)

Vec(x, y, z) == <<x, y, z>>

Zero3 == <<0, 0, 0>>

VAdd(a, b) == <<a[1] + b[1], a[2] + b[2], a[3] + b[3]>>

VSub(a, b) == <<a[1] - b[1], a[2] - b[2], a[3] - b[3]>>

VNeg(a) == <<-a[1], -a[2], -a[3]>>

\* multiplyScalar(num / den)
VScale(a, num, den) ==
    <<RDiv(a[1] * num, den), RDiv(a[2] * num, den), RDiv(a[3] * num, den)>>

\* lengthSq / distanceToSquared, in steps squared (exact)
LengthSq(a) == a[1] * a[1] + a[2] * a[2] + a[3] * a[3]

Length(a) == Sqrt(LengthSq(a))

\* dot of two vectors (exact, in steps squared)
DotRaw(a, b) == a[1] * b[1] + a[2] * b[2] + a[3] * b[3]

\* dot of a vector with a direction (a vector of length Unit)
Dot(a, dir) == RDiv(DotRaw(a, dir), Unit)

\* divideScalar(d) of a vector, giving a direction of length Unit when d is
\* the vector's length
DivideToDir(a, d) == VScale(a, Unit, d)

\* normalize(): divideScalar(length() || 1); the zero vector stays zero
Normalize(a) == IF LengthSq(a) = 0 THEN Zero3 ELSE DivideToDir(a, Length(a))

\* clamp(min, max), component-wise
VClamp(a, lo, hi) ==
    <<Max(lo[1], Min(hi[1], a[1])), Max(lo[2], Min(hi[2], a[2])),
      Max(lo[3], Min(hi[3], a[3]))>>

\* a direction scaled to a length given in steps
DirTimes(dir, len) == VScale(dir, len, Unit)

\* velocity * timeStep (ticks)
TimesDt(a, dt) == VScale(a, dt, Unit)

-----------------------------------------------------------------------------
(* Exact fractions for invMass                                             *)

QZero == <<0, 1>>

QIsZero(q) == q[1] = 0

QPos(q) == q[1] > 0

QAdd(p, q) == <<p[1] * q[2] + q[1] * p[2], p[2] * q[2]>>

\* p / q for q > 0
QDiv(p, q) == <<p[1] * q[2], p[2] * q[1]>>

\* x * q rounded
QTimes(x, q) == RDiv(x * q[1], q[2])

VTimesQ(a, q) == VScale(a, q[1], q[2])

-----------------------------------------------------------------------------
(* Colliders: construction and repositioning                               *)

\* new SphereCollider(position, radius)
SphereCollider(position, radius) ==
    [shape |-> "sphere", position |-> position, radius |-> radius,
     halfExtents |-> Zero3]

\* new BoxCollider(position, halfExtents)
BoxCollider(position, halfExtents) ==
    [shape |-> "box", position |-> position, radius |-> 0,
     halfExtents |-> halfExtents]

\* BoxCollider.updateBox: the Box3 the collider keeps around its position
BoxMin(c) == VSub(c.position, c.halfExtents)

BoxMax(c) == VAdd(c.position, c.halfExtents)

\* Collider.updatePosition(position)
updatePosition(c, position) == [c EXCEPT !.position = position]

-----------------------------------------------------------------------------
(* PhysicsBody and its subclasses: construction                            *)

\* options.f !== undefined ? options.f : d
Opt(o, f, d) == IF f \in DOMAIN o THEN o[f] ELSE d

maxFallSpeed == 30 * Unit

stabilizeThreshold == Unit \div 20

PhysicsClasses ==
    {"PhysicsBody", "StaticBody", "GroundPlane", "BoxObstacle", "PlanetBody"}

\* body instanceof PhysicsBody
IsPhysicsBody(o) == o.cls \in PhysicsClasses

\* new PhysicsBody(options); id names the object (its identity)
PhysicsBody(id, o) ==
    LET position == Opt(o, "position", Zero3)
        mass0    == Opt(o, "mass", 1)
        isStatic == Opt(o, "isStatic", FALSE)
    IN  [id          |-> id,
         cls         |-> "PhysicsBody",
         position    |-> position,
         velocity    |-> Opt(o, "velocity", Zero3),
         acceleration |-> Zero3,
         forces      |-> Zero3,
         mass        |-> IF isStatic THEN 0 ELSE mass0,
         invMass     |-> IF isStatic \/ mass0 <= 0 THEN QZero ELSE <<1, mass0>>,
         isStatic    |-> isStatic,
         restitution |-> Opt(o, "restitution", 1),
         onGround    |-> FALSE,
         usesGravity |-> Opt(o, "usesGravity", TRUE),
         hasEntity   |-> Opt(o, "entity", FALSE),
         isJumping   |-> FALSE,
         surfaceNormal |-> Vec(0, Unit, 0),
         hasRadius   |-> ("radius" \in DOMAIN o) \/ ~("halfExtents" \in DOMAIN o),
         radius      |-> IF "radius" \in DOMAIN o THEN o.radius
                         ELSE IF "halfExtents" \in DOMAIN o THEN 0 ELSE Unit,
         collider    |-> IF "radius" \in DOMAIN o
                           THEN SphereCollider(position, o.radius)
                         ELSE IF "halfExtents" \in DOMAIN o
                           THEN BoxCollider(position, o.halfExtents)
                         ELSE SphereCollider(position, Unit),
         isPlanet    |-> FALSE,
         normal      |-> Vec(0, Unit, 0),
         offset      |-> 0]

\* options with isStatic, mass and usesGravity forced, as StaticBody does
StaticOptions(o) ==
    [f \in DOMAIN o \cup {"isStatic", "mass", "usesGravity"} |->
        CASE f = "isStatic"    -> TRUE
          [] f = "mass"        -> 0
          [] f = "usesGravity" -> FALSE
          [] OTHER             -> o[f]]

\* new StaticBody(options)
StaticBody(id, o) == [PhysicsBody(id, StaticOptions(o)) EXCEPT !.cls = "StaticBody"]

\* new GroundPlane(options)
GroundPlane(id, o) ==
    [StaticBody(id, o) EXCEPT !.cls = "GroundPlane",
                              !.normal = Opt(o, "normal", Vec(0, Unit, 0)),
                              !.offset = Opt(o, "offset", 0)]

\* new BoxObstacle(options)
BoxObstacle(id, o) ==
    [StaticBody(id, IF "halfExtents" \in DOMAIN o THEN o
                    ELSE [f \in DOMAIN o \cup {"halfExtents"} |->
                            IF f = "halfExtents" THEN Vec(Unit, Unit, Unit) ELSE o[f]])
        EXCEPT !.cls = "BoxObstacle"]

\* new PlanetBody(options)
PlanetBody(id, o) ==
    LET radius == IF "radius" \in DOMAIN o /\ o.radius # 0 THEN o.radius ELSE 20 * Unit
    IN  [StaticBody(id, o) EXCEPT !.cls = "PlanetBody", !.isPlanet = TRUE,
                                  !.hasRadius = TRUE, !.radius = radius]
        @@ [center          |-> Opt(o, "position", Zero3),
            gravityStrength |-> IF "gravityStrength" \in DOMAIN o /\ o.gravityStrength # 0
                                  THEN o.gravityStrength ELSE 25,
            surfaceOffset   |-> Unit \div 5,
            snapForce       |-> <<1, 2>>,
            groundThreshold |-> (3 * Unit) \div 10,
            minSafeDistance |-> (radius * 9) \div 10]

\* null / undefined
Null == [id |-> "null", cls |-> "null"]

\* PhysicsWorld.planetBody = null
NoPlanet == Null

\* engine.player = null
NoPlayer == [exists |-> FALSE, physicsBody |-> Null]

-----------------------------------------------------------------------------
(* PhysicsWorld: the body lists                                            *)

\* Array.prototype.indexOf (by object identity); 0 when absent
IndexOf(seq, o) ==
    IF \E i \in 1..Len(seq) : seq[i].id = o.id
    THEN CHOOSE i \in 1..Len(seq) :
            /\ seq[i].id = o.id
            /\ \A j \in 1..(i - 1) : seq[j].id # o.id
    ELSE 0

\* Array.prototype.splice(index, 1)
Splice(seq, i) == [k \in 1..(Len(seq) - 1) |-> IF k < i THEN seq[k] ELSE seq[k + 1]]

\* o.isStatic as a condition (undefined is falsy)
Truthy(o, f) == IF f \in DOMAIN o THEN o[f] ELSE FALSE

\* addBody without its instanceof guard
addBodyUnchecked(bs, ss, o) ==
    IF Truthy(o, "isStatic")
    THEN [bodies |-> bs, staticBodies |-> Append(ss, o), ret |-> o]
    ELSE [bodies |-> Append(bs, o), staticBodies |-> ss, ret |-> o]

\* PhysicsWorld.addBody(body): the lists after it and the value returned
addBody(bs, ss, o) ==
    IF ~IsPhysicsBody(o)
    THEN [bodies |-> bs, staticBodies |-> ss, ret |-> Null]
    ELSE IF o.isStatic
    THEN [bodies |-> bs, staticBodies |-> Append(ss, o), ret |-> o]
    ELSE [bodies |-> Append(bs, o), staticBodies |-> ss, ret |-> o]

\* PhysicsWorld.removeBody(body)
removeBody(bs, ss, o) ==
    IF o = Null
    THEN [bodies |-> bs, staticBodies |-> ss, ret |-> Null]
    ELSE IF Truthy(o, "isStatic")
    THEN [bodies |-> bs,
          staticBodies |-> IF IndexOf(ss, o) # 0 THEN Splice(ss, IndexOf(ss, o)) ELSE ss,
          ret |-> Null]
    ELSE [bodies |-> IF IndexOf(bs, o) # 0 THEN Splice(bs, IndexOf(bs, o)) ELSE bs,
          staticBodies |-> ss,
          ret |-> Null]

\* clear() that forgets the player's body
clearAll(p) == [bodies |-> <<>>, staticBodies |-> <<>>, ret |-> Null]

\* PhysicsWorld.clear()
clear(p) ==
    LET playerBody == p.physicsBody
    IN  IF playerBody # Null
        THEN [bodies |-> IF playerBody.isStatic THEN <<>> ELSE <<playerBody>>,
              staticBodies |-> IF playerBody.isStatic THEN <<playerBody>> ELSE <<>>,
              ret |-> Null]
        ELSE [bodies |-> <<>>, staticBodies |-> <<>>, ret |-> Null]

-----------------------------------------------------------------------------
(* The objects the collaborators hand to the world                         *)

\* Player.constructor: the player's body
PlayerBody ==
    PhysicsBody("player", [position |-> Vec(0, 2 * Unit, 0), mass |-> 75,
                           radius |-> Unit \div 2, restitution |-> 0,
                           usesGravity |-> TRUE, entity |-> TRUE])

\* Zombie.constructor: a zombie's body
ZombieBody ==
    PhysicsBody("zombie", [position |-> Vec(5 * Unit, 0, -5 * Unit), mass |-> 70,
                           radius |-> Unit \div 2, restitution |-> 2])

\* WeaponPickup.constructor: a pickup's body (a box)
PickupBody ==
    PhysicsBody("pickup", [position |-> Vec(3 * Unit, Unit, 0), mass |-> 5,
                           halfExtents |-> Vec(Unit \div 5, Unit \div 10, Unit \div 2),
                           restitution |-> 3])

\* Renderer.createStructure: a static box
StructureBody ==
    BoxObstacle("structure", [position |-> Vec(0, Unit, 4 * Unit),
                              halfExtents |-> Vec(Unit, Unit, Unit),
                              restitution |-> 2])

\* an object that is no PhysicsBody
PlainObject == [id |-> "object", cls |-> "Object"]

\* what addBody may be given
AddArgs == {PlayerBody, ZombieBody, PickupBody, StructureBody, PlainObject}

\* what removeBody may be given
RemoveArgs == AddArgs \cup {Null}

-----------------------------------------------------------------------------
(* The world's operations as actions                                       *)

\* bound on the two lists' total length
MaxBodies == 3

NoOp == [op |-> "none", arg |-> Null, ret |-> Null,
         bodies |-> <<>>, staticBodies |-> <<>>]

Recorded(op, arg, ret) ==
    /\ last' = [op |-> op, arg |-> arg, ret |-> ret,
                bodies |-> bodies, staticBodies |-> staticBodies]
    /\ prev' = [op |-> last.op, arg |-> last.arg]

SimIdle ==
    /\ planetBody = NoPlanet /\ accumulator = 0 /\ pc = "idle" /\ substep = 0
    /\ stepDts = <<>> /\ frame = 0 /\ budget = 0 /\ run = 0 /\ probe = 0

AddBody(o) ==
    /\ Len(bodies) + Len(staticBodies) < MaxBodies
    /\ LET r == addBody(bodies, staticBodies, o)
       IN  /\ bodies' = r.bodies
           /\ staticBodies' = r.staticBodies
           /\ Recorded("addBody", o, r.ret)
    /\ UNCHANGED gameVars
    /\ UNCHANGED <<planetBody, accumulator, player, pc, substep, stepDts, frame,
                   budget, run, probe>>

RemoveBody(o) ==
    /\ LET r == removeBody(bodies, staticBodies, o)
       IN  /\ bodies' = r.bodies
           /\ staticBodies' = r.staticBodies
           /\ Recorded("removeBody", o, r.ret)
    /\ UNCHANGED gameVars
    /\ UNCHANGED <<planetBody, accumulator, player, pc, substep, stepDts, frame,
                   budget, run, probe>>

Clear ==
    /\ LET r == clear(player)
       IN  /\ bodies' = r.bodies
           /\ staticBodies' = r.staticBodies
           /\ Recorded("clear", Null, r.ret)
    /\ UNCHANGED gameVars
    /\ UNCHANGED <<planetBody, accumulator, player, pc, substep, stepDts, frame,
                   budget, run, probe>>

\* Engine.init: this.player = new Player(this); the constructor adds the body
CreatePlayer ==
    /\ ~player.exists
    /\ Len(bodies) + Len(staticBodies) < MaxBodies
    /\ LET r == addBody(bodies, staticBodies, PlayerBody)
       IN  /\ bodies' = r.bodies
           /\ staticBodies' = r.staticBodies
           /\ Recorded("addBody", PlayerBody, r.ret)
    /\ player' = [exists |-> TRUE, physicsBody |-> PlayerBody]
    /\ UNCHANGED gameVars
    /\ UNCHANGED <<planetBody, accumulator, pc, substep, stepDts, frame,
                   budget, run, probe>>

InitWorld ==
    /\ NoGame
    /\ bodies = <<>> /\ staticBodies = <<>> /\ player = NoPlayer
    /\ last = NoOp /\ prev = [op |-> "none", arg |-> Null]
    /\ SimIdle

NextWorld ==
    \/ \E o \in AddArgs : AddBody(o)
    \/ \E o \in RemoveArgs : RemoveBody(o)
    \/ Clear
    \/ CreatePlayer

SpecWorld == InitWorld /\ [][NextWorld]_vars

-----------------------------------------------------------------------------
(* Properties of the body lists (SpecWorld)                                *)

ListsUnchanged == bodies = last.bodies /\ staticBodies = last.staticBodies

\* C4: removeBody is idempotent: a second removeBody(b) issued immediately
\* after a first one leaves bodies and staticBodies unchanged, and removeBody
\* of a body that is absent from the world changes nothing.
C4_RemoveBodyIdempotent ==
    /\ (last.op = "removeBody" /\ prev.op = "removeBody" /\ prev.arg = last.arg)
          => ListsUnchanged
    /\ (/\ last.op = "removeBody"
        /\ \A i \in 1..Len(last.bodies) : last.bodies[i].id # last.arg.id
        /\ \A i \in 1..Len(last.staticBodies) : last.staticBodies[i].id # last.arg.id)
          => ListsUnchanged

\* C9: addBody given an object that is no PhysicsBody returns null and leaves
\* both lists unchanged; given a PhysicsBody it returns that body and appends
\* it to staticBodies if isStatic and to bodies otherwise, never to both.
C9_AddBodyContract ==
    last.op = "addBody" =>
        IF ~IsPhysicsBody(last.arg)
        THEN last.ret = Null /\ ListsUnchanged
        ELSE /\ last.ret = last.arg
             /\ IF last.arg.isStatic
                THEN /\ staticBodies = Append(last.staticBodies, last.arg)
                     /\ bodies = last.bodies
                ELSE /\ bodies = Append(last.bodies, last.arg)
                     /\ staticBodies = last.staticBodies

\* a rejected object, in a world that already holds a dynamic and a static body
C9_Witness ==
    /\ last.op = "addBody" /\ ~IsPhysicsBody(last.arg) /\ last.ret = Null
    /\ Len(bodies) > 0 /\ Len(staticBodies) > 0

\* C10: after clear() the two lists together hold exactly the current
\* player's physics body, once, in the list matching its isStatic flag, when
\* a player exists, and are both empty when there is none.
C10_ClearKeepsOnlyPlayer ==
    last.op = "clear" =>
        IF player.exists
        THEN LET b == player.physicsBody
             IN  IF b.isStatic
                 THEN bodies = <<>> /\ staticBodies = <<b>>
                 ELSE bodies = <<b>> /\ staticBodies = <<>>
        ELSE bodies = <<>> /\ staticBodies = <<>>

\* clear() with a player, in a world that held other bodies beside the player's
C10_Witness ==
    /\ last.op = "clear" /\ player.exists
    /\ Len(last.bodies) >= 2 /\ Len(last.staticBodies) >= 1
    /\ bodies = <<PlayerBody>>

-----------------------------------------------------------------------------
(* PhysicsBody: forces and integration                                     *)

\* PhysicsBody.applyForce(force)
applyForce(b, force) ==
    IF b.isStatic THEN b ELSE [b EXCEPT !.forces = VAdd(b.forces, force)]

\* integrateForces that forgets the inverse mass (acceleration = forces)
integrateForcesNoMass(b, timeStep) ==
    IF b.isStatic THEN b
    ELSE LET v == VAdd(b.velocity, TimesDt(b.forces, timeStep))
         IN  [b EXCEPT !.acceleration = b.forces,
                       !.velocity = IF v[2] < -maxFallSpeed
                                    THEN <<v[1], -maxFallSpeed, v[3]>> ELSE v,
                       !.forces = Zero3]

\* PhysicsBody.integrateForces(timeStep)
integrateForces(b, timeStep) ==
    IF b.isStatic THEN b
    ELSE LET acceleration == VTimesQ(b.forces, b.invMass)
             v == VAdd(b.velocity, TimesDt(acceleration, timeStep))
         IN  [b EXCEPT !.acceleration = acceleration,
                       !.velocity = IF v[2] < -maxFallSpeed
                                    THEN <<v[1], -maxFallSpeed, v[3]>> ELSE v,
                       !.forces = Zero3]

\* Math.sqrt(x * x + z * z) < limit, decided on the exact squares
HorizontalSpeedBelow(x, z, limit) ==
    /\ Abs(x) < limit
    /\ Abs(z) < limit
    /\ x * x + z * z < limit * limit

\* PhysicsBody.stabilize(), on the velocity
stabilize(velocity, onGround) ==
    LET x == IF Abs(velocity[1]) < stabilizeThreshold THEN 0 ELSE velocity[1]
        y == IF Abs(velocity[2]) < stabilizeThreshold THEN 0 ELSE velocity[2]
        z == IF Abs(velocity[3]) < stabilizeThreshold THEN 0 ELSE velocity[3]
    IN  IF onGround /\ HorizontalSpeedBelow(x, z, stabilizeThreshold * 2)
        THEN <<0, y, 0>>
        ELSE <<x, y, z>>

\* PhysicsBody.integrateVelocity(timeStep)
integrateVelocity(b, timeStep) ==
    IF b.isStatic THEN b
    ELSE LET position == VAdd(b.position, TimesDt(b.velocity, timeStep))
         IN  [b EXCEPT !.position = position,
                       !.velocity = stabilize(b.velocity, b.onGround),
                       !.collider = updatePosition(b.collider, position)]

-----------------------------------------------------------------------------
(* SpecBody: integrateVelocity followed by integrateForces on one body     *)

ProbeVelocityX == {0, Milli(30), Milli(80), 2 * Unit}

ProbeVelocityY == {-36 * Unit, -Unit, -Milli(30), 0, 3 * Unit}

ProbeVelocityZ == {0, -Milli(40), -Unit}

ProbeForces(mass) ==
    {Zero3, Vec(0, -20 * Unit * mass, 0), Vec(3 * Unit * mass, 7 * Unit, -Unit)}

ProbeMasses == {1, 5, 75}

\* the timeSteps update() can hand to fixedUpdate: the fixed step and leftovers
ProbeTimeSteps == {Unit \div physicsFPS, 15, 90}

ProbeBody(v, f, mass, onGround) ==
    [PhysicsBody("probe", [position |-> Vec(Unit, 2 * Unit, -Unit), velocity |-> v,
                           mass |-> mass, radius |-> Unit \div 2])
        EXCEPT !.forces = f, !.onGround = onGround]

WorldIdle ==
    /\ bodies = <<>> /\ staticBodies = <<>> /\ player = NoPlayer
    /\ last = NoOp /\ prev = [op |-> "none", arg |-> Null]

InitBody ==
    /\ NoGame
    /\ WorldIdle /\ planetBody = NoPlanet /\ accumulator = 0 /\ pc = "idle"
    /\ substep = 0 /\ stepDts = <<>> /\ frame = 0 /\ budget = 0 /\ run = 0
    /\ \E x \in ProbeVelocityX, y \in ProbeVelocityY, z \in ProbeVelocityZ,
          mass \in ProbeMasses, onGround \in BOOLEAN, dt \in ProbeTimeSteps :
         \E f \in ProbeForces(mass) :
            probe = [kind |-> "integrate", done |-> FALSE, timeStep |-> dt,
                     in |-> ProbeBody(Vec(x, y, z), f, mass, onGround),
                     out |-> ProbeBody(Vec(x, y, z), f, mass, onGround)]

\* body.integrateVelocity(dt); body.integrateForces(dt)
Integrate ==
    /\ probe.kind = "integrate" /\ ~probe.done
    /\ probe' = [probe EXCEPT
                   !.done = TRUE,
                   !.out = integrateForces(integrateVelocity(probe.in, probe.timeStep),
                                           probe.timeStep)]
    /\ UNCHANGED gameVars
    /\ UNCHANGED <<bodies, staticBodies, planetBody, accumulator, player, pc,
                   substep, stepDts, frame, budget, run, last, prev>>

NextBody == Integrate

SpecBody == InitBody /\ [][NextBody]_vars

\* what the two integrations together should add: velocity * dt to the
\* position, (force / mass) * dt to the velocity
EulerPosition(b, dt) == VAdd(b.position, TimesDt(b.velocity, dt))

EulerVelocity(b, dt) ==
    VAdd(b.velocity, TimesDt(VScale(b.forces, 1, b.mass), dt))

\* C5 as claimed: for every starting velocity and accumulated force,
\* integrateVelocity(dt) then integrateForces(dt) changes position by
\* velocity * dt and velocity by (accumulatedForce / mass) * dt.
C5_EulerStepAnyVelocity ==
    (probe.kind = "integrate" /\ probe.done) =>
        /\ probe.out.position = EulerPosition(probe.in, probe.timeStep)
        /\ probe.out.velocity = EulerVelocity(probe.in, probe.timeStep)

\* stabilize() leaves the velocity alone: no component is nonzero and below
\* stabilizeThreshold, and on the ground the horizontal speed is zero or at
\* least twice the threshold
KeptByStabilize(b) ==
    /\ \A i \in 1..3 : b.velocity[i] = 0 \/ Abs(b.velocity[i]) >= stabilizeThreshold
    /\ b.onGround =>
          \/ b.velocity[1] = 0 /\ b.velocity[3] = 0
          \/ Abs(b.velocity[1]) >= 2 * stabilizeThreshold
          \/ Abs(b.velocity[3]) >= 2 * stabilizeThreshold
          \/ b.velocity[1] * b.velocity[1] + b.velocity[3] * b.velocity[3]
                >= 4 * stabilizeThreshold * stabilizeThreshold

\* C5 as amended: the position always changes by velocity * dt; the velocity
\* changes by (force / mass) * dt when stabilize() leaves the starting velocity
\* alone and the new vertical velocity is not below -maxFallSpeed.
C5_EulerStepAmended ==
    (probe.kind = "integrate" /\ probe.done) =>
        /\ probe.out.position = EulerPosition(probe.in, probe.timeStep)
        /\ probe.out.collider.position = probe.out.position
        /\ probe.out.forces = Zero3
        /\ (/\ KeptByStabilize(probe.in)
            /\ EulerVelocity(probe.in, probe.timeStep)[2] >= -maxFallSpeed)
              => probe.out.velocity = EulerVelocity(probe.in, probe.timeStep)

\* a heavy body with a force on it and a velocity stabilize() leaves alone
C5_Witness ==
    /\ probe.kind = "integrate" /\ probe.done
    /\ probe.in.mass = 75 /\ probe.in.forces # Zero3
    /\ probe.in.velocity[1] # 0 /\ probe.in.velocity[2] # 0
    /\ KeptByStabilize(probe.in)
    /\ probe.out.velocity = EulerVelocity(probe.in, probe.timeStep)
    /\ probe.out.velocity # probe.in.velocity

-----------------------------------------------------------------------------
(* Colliders: intersection tests and contact information                   *)

\* three.js Sphere.intersectsSphere: distanceToSquared <= radiusSum squared
intersectsSphere(a, b) ==
    LengthSq(VSub(b.position, a.position))
        <= (a.radius + b.radius) * (a.radius + b.radius)

\* three.js Box3.intersectsSphere: the sphere's centre clamped into the box is
\* no further from the centre than the radius
boxIntersectsSphere(box, s) ==
    LengthSq(VSub(VClamp(s.position, BoxMin(box), BoxMax(box)), s.position))
        <= s.radius * s.radius

\* three.js Box3.intersectsBox: no axis separates the boxes
intersectsBox(a, b) ==
    \A i \in 1..3 : ~(BoxMax(b)[i] < BoxMin(a)[i] \/ BoxMin(b)[i] > BoxMax(a)[i])

\* SphereCollider.intersects / BoxCollider.intersects
intersects(this, other) ==
    IF this.shape = "sphere"
    THEN IF other.shape = "sphere" THEN intersectsSphere(this, other)
         ELSE boxIntersectsSphere(other, this)
    ELSE IF other.shape = "box" THEN intersectsBox(this, other)
         ELSE boxIntersectsSphere(this, other)

\* getCollisionInfo returning null
NoContact == [hit |-> FALSE, normal |-> Zero3, depth |-> 0, point |-> Zero3]

\* BoxCollider.projectOntoAxis, for the i-th coordinate axis
projectOntoAxis(c, i) ==
    [min |-> c.position[i] - c.halfExtents[i], max |-> c.position[i] + c.halfExtents[i]]

\* the overlap of two boxes' projections onto the i-th axis
Overlap(this, other, i) ==
    Min(projectOntoAxis(this, i).max, projectOntoAxis(other, i).max)
        - Max(projectOntoAxis(this, i).min, projectOntoAxis(other, i).min)

\* the i-th axis, turned to point from this to other
AxisToward(this, other, i) ==
    LET s == IF other.position[i] - this.position[i] < 0 THEN -Unit ELSE Unit
    IN  [k \in 1..3 |-> IF k = i THEN s ELSE 0]

\* BoxCollider.getCollisionInfo(other), other a box
boxBoxInfo(this, other) ==
    IF ~intersects(this, other) \/ \E i \in 1..3 : Overlap(this, other, i) <= 0
    THEN NoContact
    ELSE LET i == CHOOSE k \in 1..3 :
                    /\ \A j \in 1..3 : Overlap(this, other, k) <= Overlap(this, other, j)
                    /\ \A j \in 1..(k - 1) : Overlap(this, other, j) > Overlap(this, other, k)
         IN  [hit    |-> TRUE,
              normal |-> AxisToward(this, other, i),
              depth  |-> Overlap(this, other, i),
              point  |-> VScale(VAdd(this.position, other.position), 1, 2)]

\* BoxCollider.getCollisionInfo(other), other a sphere
boxSphereInfo(this, other) ==
    IF ~intersects(this, other) THEN NoContact
    ELSE LET closestPoint == VClamp(other.position, BoxMin(this), BoxMax(this))
             away == VSub(other.position, closestPoint)
         IN  IF LengthSq(away) > other.radius * other.radius THEN NoContact
             ELSE [hit    |-> TRUE,
                   normal |-> Normalize(away),
                   depth  |-> other.radius - Length(away),
                   point  |-> closestPoint]

\* SphereCollider.getCollisionInfo(other), other a sphere
sphereSphereInfo(this, other) ==
    LET apart == VSub(this.position, other.position)
        minDistance == this.radius + other.radius
    IN  IF LengthSq(apart) < minDistance * minDistance
        THEN LET normal == Normalize(apart)
             IN  [hit    |-> TRUE,
                  normal |-> normal,
                  depth  |-> minDistance - Length(apart),
                  point  |-> VAdd(DirTimes(normal, this.radius), this.position)]
        ELSE NoContact

\* SphereCollider.getCollisionInfo / BoxCollider.getCollisionInfo
getCollisionInfo(this, other) ==
    IF this.shape = "sphere"
    THEN IF other.shape = "sphere" THEN sphereSphereInfo(this, other)
         ELSE boxSphereInfo(other, this)
    ELSE IF other.shape = "box" THEN boxBoxInfo(this, other)
         ELSE boxSphereInfo(this, other)

-----------------------------------------------------------------------------
(* SpecCollider: intersects and getCollisionInfo on two colliders          *)

ProbeCoordinates == {-2 * Unit, 0, Milli(1500), 2 * Unit, Milli(2500)}

ProbeRadii == {Unit \div 2, Unit}

ProbeColliders(position) ==
    {SphereCollider(position, r) : r \in ProbeRadii}
        \cup {BoxCollider(position, Vec(Unit, Unit \div 2, Unit))}

InitCollider ==
    /\ NoGame
    /\ WorldIdle /\ planetBody = NoPlanet /\ accumulator = 0 /\ pc = "idle"
    /\ substep = 0 /\ stepDts = <<>> /\ frame = 0 /\ budget = 0 /\ run = 0
    /\ \E x \in ProbeCoordinates, y \in ProbeCoordinates, z \in ProbeCoordinates :
         \E a \in ProbeColliders(Zero3), b \in ProbeColliders(Vec(x, y, z)) :
            probe = [kind |-> "collide", done |-> FALSE, a |-> a, b |-> b,
                     intersects |-> FALSE, info |-> NoContact]

\* a.intersects(b) and a.getCollisionInfo(b)
Collide ==
    /\ probe.kind = "collide" /\ ~probe.done
    /\ probe' = [probe EXCEPT !.done = TRUE,
                              !.intersects = intersects(probe.a, probe.b),
                              !.info = getCollisionInfo(probe.a, probe.b)]
    /\ UNCHANGED gameVars
    /\ UNCHANGED <<bodies, staticBodies, planetBody, accumulator, player, pc,
                   substep, stepDts, frame, budget, run, last, prev>>

NextCollider == Collide

SpecCollider == InitCollider /\ [][NextCollider]_vars

\* two sphere colliders have been tested against each other
SpheresTested ==
    /\ probe.kind = "collide" /\ probe.done
    /\ probe.a.shape = "sphere" /\ probe.b.shape = "sphere"

\* the centres of the two colliders are exactly d apart
CentresApart(d) == LengthSq(VSub(probe.a.position, probe.b.position)) = d * d

\* C8: for two sphere colliders, intersects() is true exactly when the centres
\* are strictly less than r1 + r2 apart, and getCollisionInfo() returns a
\* contact (depth r1 + r2 - distance, normal from the other sphere to this
\* one) exactly when intersects() is true; unit spheres 1.5 apart give depth
\* 0.5 and unit spheres 2.5 apart give no intersection and no contact.
C8_SphereSphereContract ==
    SpheresTested =>
        LET apart == VSub(probe.a.position, probe.b.position)
            sum == probe.a.radius + probe.b.radius
        IN  /\ probe.intersects <=> LengthSq(apart) < sum * sum
            /\ probe.info.hit <=> probe.intersects
            /\ probe.info.hit =>
                  /\ probe.info.depth = sum - Length(apart)
                  /\ probe.info.normal = Normalize(apart)
            /\ (sum = 2 * Unit /\ CentresApart(Milli(1500)))
                  => probe.info.hit /\ probe.info.depth = Unit \div 2
            /\ (sum = 2 * Unit /\ CentresApart(Milli(2500)))
                  => ~probe.intersects /\ ~probe.info.hit

-----------------------------------------------------------------------------
(* PhysicsWorld: one fixed sub-step                                        *)

\* PhysicsWorld.fixedTimeStep = 1 / physicsFPS, in ticks
fixedTimeStep == Unit \div physicsFPS

maxSubSteps == 3

\* the cap update() puts on deltaTime: 0.1 s
maxDelta == Unit \div 10

\* PhysicsWorld.groundThreshold (flat world): 0.15
groundThreshold == (15 * Unit) \div 100

\* PhysicsWorld.gravity = (0, engine.config.gravity, 0)
gravity == Vec(0, -20 * Unit, 0)

\* body.radius || d
RadiusOr(b, d) == IF b.hasRadius /\ b.radius # 0 THEN b.radius ELSE d

\* body.position.copy(p); body.collider.updatePosition(body.position)
moveTo(b, p) == [b EXCEPT !.position = p, !.collider = updatePosition(b.collider, p)]

\* fixedUpdate phase 1 for one body: emergency correction of a body that is
\* severely inside the planet
safetyCheck(planet, body) ==
    LET distVector == VSub(body.position, planet.center)
        minSafeDistance == (planet.radius * 9) \div 10
    IN  IF LengthSq(distVector) < minSafeDistance * minSafeDistance
        THEN moveTo(body, VAdd(planet.center,
                               DirTimes(Normalize(distVector),
                                        minSafeDistance + RadiusOr(body, Unit \div 2))))
        ELSE body

\* PlanetBody.applyGravitationalForce(body)
applyGravitationalForce(planet, body) ==
    IF ~body.usesGravity THEN body
    ELSE LET toCenter == VSub(planet.center, body.position)
             distance == Sqrt(Max(LengthSq(toCenter), 1))
             gravityDir == DivideToDir(toCenter, distance)
         IN  applyForce(body, VScale(gravityDir, body.mass * planet.gravityStrength, 1))

\* the ground-state part without the cancelling of inward velocity
groundVelocityNoCancel(velocity, radialDir) ==
    LET slowed == VScale(velocity, 98, 100)
    IN  IF Dot(radialDir, Vec(0, -Unit, 0)) > (95 * Unit) \div 100
        THEN VScale(slowed, 95, 100)
        ELSE slowed

\* the ground-state part of handlePlanetSurfaceInteraction, on the velocity
groundVelocity(velocity, radialDir) ==
    LET normalVel == Dot(velocity, radialDir)
        kept == IF normalVel < 0 THEN VSub(velocity, DirTimes(radialDir, normalVel))
                ELSE velocity
        slowed == VScale(kept, 98, 100)
    IN  IF Dot(radialDir, Vec(0, -Unit, 0)) > (95 * Unit) \div 100
        THEN VScale(slowed, 95, 100)
        ELSE slowed

\* PlanetBody.handlePlanetSurfaceInteraction(body, deltaTime)
\* (epsilon = 1e-6 is below one step; a zero fromCenter stays zero)
handlePlanetSurfaceInteraction(planet, body, deltaTime) ==
    IF ~body.usesGravity THEN body
    ELSE LET fromCenter0 == VSub(body.position, planet.center)
             distance == Length(fromCenter0)
             unsafe == LengthSq(fromCenter0) < planet.minSafeDistance * planet.minSafeDistance
             \* fromCenter.normalize() works in place
             fromCenter == IF unsafe THEN Normalize(Normalize(fromCenter0)) ELSE fromCenter0
             bodyRadius == RadiusOr(body, Unit \div 2)
             inner == Normalize(Normalize(fromCenter0))
             innerVel == Dot(body.velocity, inner)
             b1 == IF unsafe
                   THEN [moveTo(body, VAdd(planet.center,
                                           DirTimes(Normalize(fromCenter0),
                                                    planet.minSafeDistance + bodyRadius)))
                           EXCEPT !.velocity =
                               IF innerVel < 0
                               THEN VSub(body.velocity, DirTimes(inner, innerVel))
                               ELSE body.velocity]
                   ELSE body
             radialDir == IF distance = 0 THEN Zero3 ELSE DivideToDir(fromCenter, distance)
             idealDistance == planet.radius + planet.surfaceOffset + bodyRadius
             distanceError == idealDistance - distance
             onGround == Abs(distanceError) < planet.groundThreshold
             isJumping == body.hasEntity /\ body.isJumping
             pushFactor == IF isJumping THEN <<1, 10>> ELSE planet.snapForce
             b2 == [b1 EXCEPT !.surfaceNormal = IF body.hasEntity THEN radialDir ELSE @,
                              !.onGround = onGround]
             b3 == IF distanceError > Unit \div 100
                   THEN applyForce(b2, DirTimes(radialDir,
                                       QTimes(distanceError * body.mass, pushFactor)))
                   ELSE b2
         IN  IF onGround
             THEN [b3 EXCEPT !.velocity = groundVelocity(b3.velocity, radialDir)]
             ELSE b3

\* PhysicsWorld.checkWorldBounds(body), flat world
checkWorldBounds(body) ==
    IF body.position[2] < groundThreshold
    THEN LET position == IF body.position[2] < 0
                         THEN <<body.position[1], Unit \div 20, body.position[3]>>
                         ELSE body.position
             grounded == body.velocity[2] <= Unit \div 10
         IN  [body EXCEPT !.position = position,
                          !.onGround = IF grounded THEN TRUE ELSE @,
                          !.velocity = IF grounded /\ body.velocity[2] < 0
                                       THEN <<body.velocity[1], 0, body.velocity[3]>>
                                       ELSE @]
    ELSE [body EXCEPT !.onGround = FALSE]

\* PhysicsWorld.checkCollision(bodyA, bodyB): every body has a collider
checkCollision(bodyA, bodyB) == intersects(bodyA.collider, bodyB.collider)

\* body.checkCollision(other): PhysicsBody's, GroundPlane's and PlanetBody's
bodyCheckCollision(this, other) ==
    IF this.cls = "PlanetBody" THEN NoContact
    ELSE IF this.cls = "GroundPlane"
    THEN IF other.hasRadius
         THEN LET distance == Dot(other.position, this.normal) - this.offset
              IN  IF distance < other.radius
                  THEN [hit    |-> TRUE,
                        normal |-> this.normal,
                        depth  |-> other.radius - distance,
                        point  |-> VSub(other.position, DirTimes(this.normal, distance))]
                  ELSE NoContact
         ELSE NoContact
    ELSE getCollisionInfo(this.collider, other.collider)

\* what resolveCollision leaves: the two bodies and whether an impulse was
\* worked out (none of the early returns was taken)
Resolution(a, b, resolved) == [a |-> a, b |-> b, resolved |-> resolved]

\* x / q for a fraction q > 0, rounded
QOver(x, q) == RDiv(x * q[2], q[1])

\* the impulse and positional correction of resolveCollision's detailed path
\* with the correction shared evenly, whatever the masses
applyContactEvenly(bodyA, bodyB, normal, depth) ==
    LET velAlongNormal == Dot(VSub(bodyA.velocity, bodyB.velocity), normal)
        restitution == Min(bodyA.restitution, bodyB.restitution)
        invMassSum == QAdd(bodyA.invMass, bodyB.invMass)
        j == QOver(RDiv(-(10 + restitution) * velAlongNormal, 10), invMassSum)
        impulse == DirTimes(normal, j)
        correction == DirTimes(normal, RDiv(depth, 10))
        a1 == IF QPos(bodyA.invMass)
              THEN [bodyA EXCEPT !.velocity = VAdd(@, VTimesQ(impulse, bodyA.invMass))]
              ELSE bodyA
        b1 == IF QPos(bodyB.invMass)
              THEN [bodyB EXCEPT !.velocity = VSub(@, VTimesQ(impulse, bodyB.invMass))]
              ELSE bodyB
    IN  IF velAlongNormal > 0 \/ QIsZero(invMassSum)
        THEN Resolution(bodyA, bodyB, FALSE)
        ELSE IF depth > 0
        THEN Resolution(moveTo(a1, VAdd(a1.position, VScale(correction, 1, 2))),
                        moveTo(b1, VSub(b1.position, VScale(correction, 1, 2))),
                        TRUE)
        ELSE Resolution(a1, b1, TRUE)

\* resolveCollision, detailed path: impulse along the contact normal and a
\* gentle positional correction
applyContact(bodyA, bodyB, normal, depth) ==
    LET velAlongNormal == Dot(VSub(bodyA.velocity, bodyB.velocity), normal)
        restitution == Min(bodyA.restitution, bodyB.restitution)
        invMassA == bodyA.invMass
        invMassB == bodyB.invMass
        invMassSum == QAdd(invMassA, invMassB)
        j == QOver(RDiv(-(10 + restitution) * velAlongNormal, 10), invMassSum)
        impulse == DirTimes(normal, j)
        correction == DirTimes(normal, RDiv(depth, 10))
        a1 == IF QPos(invMassA)
              THEN [bodyA EXCEPT !.velocity = VAdd(@, VTimesQ(impulse, invMassA))]
              ELSE bodyA
        b1 == IF QPos(invMassB)
              THEN [bodyB EXCEPT !.velocity = VSub(@, VTimesQ(impulse, invMassB))]
              ELSE bodyB
        a2 == IF depth > 0 /\ QPos(invMassA)
              THEN moveTo(a1, VAdd(a1.position,
                                   VTimesQ(correction, QDiv(invMassA, invMassSum))))
              ELSE a1
        b2 == IF depth > 0 /\ QPos(invMassB)
              THEN moveTo(b1, VSub(b1.position,
                                   VTimesQ(correction, QDiv(invMassB, invMassSum))))
              ELSE b1
    IN  IF velAlongNormal > 0 \/ QIsZero(invMassSum)
        THEN Resolution(bodyA, bodyB, FALSE)
        ELSE Resolution(a2, b2, TRUE)

\* body.restitution || 0.3
RestitutionOr3(b) == IF b.restitution = 0 THEN 3 ELSE b.restitution

\* resolveCollision, fallback path: sphere resolution along the centre line
applyFallback(bodyA, bodyB) ==
    LET normal == Normalize(VSub(bodyA.position, bodyB.position))
        velAlongNormal == Dot(VSub(bodyA.velocity, bodyB.velocity), normal)
        e == Min(RestitutionOr3(bodyA), RestitutionOr3(bodyB))
        j == RDiv(-(10 + e) * velAlongNormal, 10)
        invMassSum == QAdd(bodyA.invMass, bodyB.invMass)
        impulseVec == DirTimes(normal, QOver(j, invMassSum))
        a1 == IF QPos(bodyA.invMass)
              THEN [bodyA EXCEPT !.velocity = VAdd(@, VTimesQ(impulseVec, bodyA.invMass))]
              ELSE bodyA
        b1 == IF QPos(bodyB.invMass)
              THEN [bodyB EXCEPT !.velocity = VSub(@, VTimesQ(impulseVec, bodyB.invMass))]
              ELSE bodyB
        minDist == RadiusOr(bodyA, Unit \div 2) + RadiusOr(bodyB, Unit \div 2)
        dist == Length(VSub(bodyA.position, bodyB.position))
        correction == RDiv(Max(minDist - dist, 0) * 3, 10)
        correctionVec == DirTimes(normal, correction)
        a2 == IF correction > 0 /\ QPos(bodyA.invMass)
              THEN moveTo(a1, VAdd(a1.position,
                                   VTimesQ(correctionVec, QDiv(bodyA.invMass, invMassSum))))
              ELSE a1
        b2 == IF correction > 0 /\ QPos(bodyB.invMass)
              THEN moveTo(b1, VSub(b1.position,
                                   VTimesQ(correctionVec, QDiv(bodyB.invMass, invMassSum))))
              ELSE b1
    IN  IF velAlongNormal > 0 \/ QIsZero(invMassSum)
        THEN Resolution(bodyA, bodyB, FALSE)
        ELSE Resolution(a2, b2, TRUE)

\* PhysicsWorld.resolveCollision(bodyA, bodyB)
resolveCollision(bodyA, bodyB) ==
    LET infoA == bodyCheckCollision(bodyA, bodyB)
        infoB == bodyCheckCollision(bodyB, bodyA)
    IN  IF infoA.hit THEN applyContact(bodyA, bodyB, infoA.normal, infoA.depth)
        ELSE IF infoB.hit THEN applyContact(bodyA, bodyB, VNeg(infoB.normal), infoB.depth)
        ELSE applyFallback(bodyA, bodyB)

\* the pair detectCollisions looks at for body i in its k-th turn: first the
\* dynamic bodies after i, then the static bodies
Partner(st, i, k) ==
    IF k <= Len(st.bodies) - i
    THEN [static |-> FALSE, index |-> i + k]
    ELSE [static |-> TRUE, index |-> k - (Len(st.bodies) - i)]

\* one pair of detectCollisions: checkCollision, then resolveCollision
detectPair(st, i, k) ==
    LET p == Partner(st, i, k)
        bodyA == st.bodies[i]
        bodyB == IF p.static THEN st.staticBodies[p.index] ELSE st.bodies[p.index]
        r == resolveCollision(bodyA, bodyB)
    IN  IF (p.static /\ bodyB.isPlanet) \/ ~checkCollision(bodyA, bodyB) THEN st
        ELSE [bodies |-> [n \in 1..Len(st.bodies) |->
                             IF n = i THEN r.a
                             ELSE IF ~p.static /\ n = p.index THEN r.b
                             ELSE st.bodies[n]],
              staticBodies |-> [n \in 1..Len(st.staticBodies) |->
                                   IF p.static /\ n = p.index THEN r.b
                                   ELSE st.staticBodies[n]],
              contacts |-> IF r.resolved
                           THEN st.contacts \cup {<<bodyA.id, bodyB.id>>}
                           ELSE st.contacts]

RECURSIVE detectFrom(_, _, _)
detectFrom(st, i, k) ==
    IF i > Len(st.bodies) THEN st
    ELSE IF k > (Len(st.bodies) - i) + Len(st.staticBodies) THEN detectFrom(st, i + 1, 1)
    ELSE CHOOSE r \in {detectFrom(next, i, k + 1) : next \in {detectPair(st, i, k)}} : TRUE

\* PhysicsWorld.detectCollisions()
detectCollisions(bs, ss) ==
    detectFrom([bodies |-> bs, staticBodies |-> ss, contacts |-> {}], 1, 1)

\* phase 3 with the uniform gravity applied whether or not a planet is set
gravityStepBoth(planet, body, timeStep) ==
    integrateForces(IF body.usesGravity
                    THEN applyForce(IF planet # NoPlanet
                                    THEN applyGravitationalForce(planet, body)
                                    ELSE body,
                                    VScale(gravity, body.mass, 1))
                    ELSE body,
                    timeStep)

\* fixedUpdate phase 3 for one body: gravity, then integrateForces
gravityStep(planet, body, timeStep) ==
    integrateForces(IF body.usesGravity
                    THEN IF planet # NoPlanet
                         THEN applyGravitationalForce(planet, body)
                         ELSE applyForce(body, VScale(gravity, body.mass, 1))
                    ELSE body,
                    timeStep)

\* what one of fixedUpdate's passes over this.bodies does to a body
\* (phases 1 to 4 and 6)
bodyPhase(phase, planet, body, timeStep) ==
    CASE phase = 1 -> IF planet # NoPlanet THEN safetyCheck(planet, body) ELSE body
      [] phase = 2 -> integrateVelocity(body, timeStep)
      [] phase = 3 -> gravityStep(planet, body, timeStep)
      [] phase = 4 -> IF planet # NoPlanet
                      THEN handlePlanetSurfaceInteraction(planet, body, timeStep)
                      ELSE body
      [] phase = 6 -> IF planet = NoPlanet THEN checkWorldBounds(body) ELSE body

\* "for (const body of this.bodies)": the bodies from the k-th on after a pass
RECURSIVE forBodies(_, _, _, _, _)
forBodies(phase, planet, bs, timeStep, k) ==
    IF k > Len(bs) THEN <<>>
    ELSE <<bodyPhase(phase, planet, bs[k], timeStep)>>
            \o forBodies(phase, planet, bs, timeStep, k + 1)

\* the passes of fixedUpdate, in the order of their numbers in its comments
PhaseNames == <<"safety", "integrateVelocity", "gravity", "surface",
                "detectCollisions", "checkWorldBounds">>

\* whether fixedUpdate makes the pass: "if (this.planetBody)", "if (!this.planetBody)"
phaseRuns(phase, planet) ==
    CASE phase \in {1, 4} -> planet # NoPlanet
      [] phase = 6       -> planet = NoPlanet
      [] OTHER           -> TRUE

\* what a pass has just done to a body: the body as the pass left it
Event(phase, body) ==
    [phase |-> PhaseNames[phase], id |-> body.id, position |-> body.position,
     velocity |-> body.velocity, acceleration |-> body.acceleration,
     onGround |-> body.onGround]

\* the events of one pass over the bodies, in the order of the list
passEvents(phase, bs) == [k \in 1..Len(bs) |-> Event(phase, bs[k])]

\* the collision pass as one event
worldEvent ==
    [phase |-> PhaseNames[5], id |-> "world", position |-> Zero3,
     velocity |-> Zero3, acceleration |-> Zero3, onGround |-> FALSE]

\* fixedUpdate with the gravity pass made before integrateVelocity
worldPhaseGravityFirst(phase, planet, w, timeStep) ==
    LET q == CASE phase = 2 -> 3 [] phase = 3 -> 2 [] OTHER -> phase
    IN  [w EXCEPT !.bodies = IF q = 5 THEN @ ELSE forBodies(q, planet, w.bodies, timeStep, 1),
                  !.trace = IF q = 5 THEN Append(@, worldEvent)
                            ELSE IF phaseRuns(q, planet)
                            THEN @ \o passEvents(q, forBodies(q, planet, w.bodies, timeStep, 1))
                            ELSE @]

\* one phase of fixedUpdate, on the lists, the contacts resolved so far and
\* the trace of what the passes did
worldPhase(phase, planet, w, timeStep) ==
    IF phase = 5
    THEN CHOOSE r \in {[bodies |-> d.bodies, staticBodies |-> d.staticBodies,
                        contacts |-> d.contacts, trace |-> Append(w.trace, worldEvent)] :
                          d \in {detectCollisions(w.bodies, w.staticBodies)}} : TRUE
    ELSE CHOOSE r \in {[w EXCEPT !.bodies = bs,
                                 !.trace = IF phaseRuns(phase, planet)
                                           THEN @ \o passEvents(phase, bs) ELSE @] :
                          bs \in {forBodies(phase, planet, w.bodies, timeStep, 1)}} : TRUE

\* fixedUpdate from a phase on; each phase works on what the one before left
RECURSIVE phasesFrom(_, _, _, _)
phasesFrom(phase, planet, w, timeStep) ==
    IF phase > 6 THEN w
    ELSE CHOOSE r \in {phasesFrom(phase + 1, planet, next, timeStep) :
                          next \in {worldPhase(phase, planet, w, timeStep)}} : TRUE

\* PhysicsWorld.fixedUpdate(timeStep): the lists after it and the contacts
\* it resolved
fixedUpdate(bs, ss, planet, timeStep) ==
    phasesFrom(1, planet, [bodies |-> bs, staticBodies |-> ss, contacts |-> {},
                           trace |-> <<>>],
               timeStep)

-----------------------------------------------------------------------------
(* PhysicsWorld.update: the sub-step scheduler, one action per step of it  *)

\* update()'s loop condition without the cap on the number of sub-steps
loopConditionUncapped(acc, n) == acc >= fixedTimeStep

\* the condition of update()'s while loop
loopCondition(acc, n) == acc >= fixedTimeStep /\ n < maxSubSteps

\* the condition of update()'s final leftover step
leftoverCondition(acc, n) == n >= maxSubSteps /\ acc > 0

\* what a run observes of a falling body: whether it has bounced (its vertical
\* velocity turned from downward to upward) and the highest point since
Observed(pr, before, after) ==
    IF pr.kind = "drop"
    THEN LET bounced == pr.bounced
                          \/ (before[1].velocity[2] < 0 /\ after[1].velocity[2] > 0)
         IN  [pr EXCEPT !.bounced = bounced,
                        !.apex = IF bounced THEN Max(@, after[1].position[2]) ELSE @]
    ELSE pr

\* update(deltaTime) up to its loop: cap the delta, add it to the accumulator
UpdateBegin(deltaTime) ==
    /\ pc = "idle" /\ budget > 0
    /\ accumulator' = accumulator + Min(deltaTime, maxDelta)
    /\ substep' = 0
    /\ stepDts' = <<>>
    /\ frame' = [called |-> TRUE, bodies |-> bodies, accumulator |-> accumulator,
                 deltaTime |-> deltaTime]
    /\ pc' = "loop"
    /\ UNCHANGED gameVars
    /\ UNCHANGED <<bodies, staticBodies, planetBody, player, budget, run, last,
                   prev, probe>>

\* one turn of update()'s loop: fixedUpdate(fixedTimeStep)
FixedStep ==
    /\ pc = "loop" /\ loopCondition(accumulator, substep)
    /\ \E w \in {fixedUpdate(bodies, staticBodies, planetBody, fixedTimeStep)} :
           /\ bodies' = w.bodies
           /\ staticBodies' = w.staticBodies
           /\ last' = [op |-> "fixedUpdate", timeStep |-> fixedTimeStep,
                       contacts |-> w.contacts, trace |-> w.trace]
           /\ probe' = Observed(probe, bodies, w.bodies)
    /\ prev' = [op |-> "fixedUpdate", bodies |-> bodies, staticBodies |-> staticBodies]
    /\ accumulator' = accumulator - fixedTimeStep
    /\ substep' = substep + 1
    /\ stepDts' = Append(stepDts, fixedTimeStep)
    /\ budget' = Max(budget - 1, 0)
    /\ UNCHANGED gameVars
    /\ UNCHANGED <<planetBody, player, pc, frame, run>>

\* update()'s final step: fixedUpdate(accumulator), then return
LeftoverStep ==
    /\ pc = "loop" /\ ~loopCondition(accumulator, substep)
    /\ leftoverCondition(accumulator, substep)
    /\ \E w \in {fixedUpdate(bodies, staticBodies, planetBody, accumulator)} :
           /\ bodies' = w.bodies
           /\ staticBodies' = w.staticBodies
           /\ last' = [op |-> "fixedUpdate", timeStep |-> accumulator,
                       contacts |-> w.contacts, trace |-> w.trace]
           /\ probe' = Observed(probe, bodies, w.bodies)
    /\ prev' = [op |-> "fixedUpdate", bodies |-> bodies, staticBodies |-> staticBodies]
    /\ accumulator' = 0
    /\ stepDts' = Append(stepDts, accumulator)
    /\ budget' = Max(budget - 1, 0)
    /\ pc' = "idle"
    /\ UNCHANGED gameVars
    /\ UNCHANGED <<planetBody, player, substep, frame, run>>

\* update() returns without a leftover step
Return ==
    /\ pc = "loop" /\ ~loopCondition(accumulator, substep)
    /\ ~leftoverCondition(accumulator, substep)
    /\ pc' = "idle"
    /\ UNCHANGED gameVars
    /\ UNCHANGED <<bodies, staticBodies, planetBody, accumulator, player, substep,
                   stepDts, frame, budget, run, last, prev, probe>>

-----------------------------------------------------------------------------
(* SpecSim: runs of update() from the worlds the game sets up               *)

\* sub-steps a run on the planet's shell executes
MaxShellSteps == 100

\* sub-steps a run of a dropped sphere executes
MaxDropSteps == 120

\* sub-steps the other runs execute
MaxRunSteps == 6

\* Renderer.createPlanetPhysics / main.js: the planet, registered with addBody
\* and installed as the planet field
Planet(center) ==
    PlanetBody("planet", [position |-> center, radius |-> 20 * Unit,
                          gravityStrength |-> 25, restitution |-> 3])

\* a body like the player's (entity given) or a zombie's (none), at a position
Walker(id, position, velocity, mass, entity, usesGravity) ==
    PhysicsBody(id, [position |-> position, velocity |-> velocity, mass |-> mass,
                     radius |-> Unit \div 2, restitution |-> IF entity THEN 0 ELSE 2,
                     usesGravity |-> usesGravity, entity |-> entity])

Run(name, deltas, bs, ss, planet, steps) ==
    [name |-> name, deltas |-> deltas, bodies |-> bs, staticBodies |-> ss,
     planetBody |-> planet, budget |-> steps]

\* the frame deltas the engine hands to update(): 1/60 s and its cap, 1/30 s
EngineDeltas == {2 * fixedTimeStep, 4 * fixedTimeStep}

\* frame deltas from nothing to far beyond every cap
AnyDeltas == {0, 5, fixedTimeStep, 45, 50 * Unit, 100000 * Unit}

\* points at the ideal shell distance, radius + surfaceOffset + bodyRadius =
\* 20.7, from the centre
ShellPoints ==
    {Vec(0, 24840, 0), Vec(0, -24840, 0), Vec(-24840, 0, 0), Vec(0, 0, 24840),
     Vec(14904, 19872, 0), Vec(0, -14904, -19872), Vec(10000, 22738, 0)}

ShellRuns ==
    {Run("shell", EngineDeltas,
         <<Walker("walker", p, Zero3, mass, entity, TRUE)>>,
         <<Planet(Zero3)>>, Planet(Zero3), MaxShellSteps) :
       p \in ShellPoints, mass \in {70, 75}, entity \in BOOLEAN}

\* points at minSafeDistance - 1 = 17 from the centre
BuriedPoints == {Vec(0, 20400, 0), Vec(-20400, 0, 0), Vec(12240, 16320, 0)}

\* velocities of k m/s along the radius through p, and one across it
BuriedVelocities(p) ==
    {VScale(p, k, 17) : k \in {-70, -5, 0, 5}} \cup {VScale(<<-p[2], p[1], 0>>, 3, 17)}

BuriedRuns ==
    {Run("buried", {d},
         <<Walker("walker", VAdd(c, p), v, 75, FALSE, g)>>,
         <<Planet(c)>>, Planet(c), MaxRunSteps) :
       d \in AnyDeltas \cup EngineDeltas, c \in {Zero3, Vec(0, -20 * Unit, 0)},
       p \in BuriedPoints, v \in UNION {BuriedVelocities(q) : q \in BuriedPoints},
       g \in BOOLEAN}

\* a sphere of restitution e let go at height 2 over the plane y = 0
DropRuns ==
    {Run("drop", EngineDeltas,
         <<PhysicsBody("ball", [position |-> Vec(x, 2 * Unit, 0), mass |-> 1,
                                radius |-> Unit \div 2, restitution |-> e])>>,
         <<GroundPlane("ground", [restitution |-> e])>>, NoPlanet, MaxDropSteps) :
       x \in {0, 5 * Unit}, e \in {0, 10}}

\* dynamic bodies moving into static ones on the flat world
FlatCollideRuns ==
    {Run("collide", EngineDeltas,
         <<Walker("zombie", Vec(0, Unit, Milli(2600)), Vec(0, 0, speed), 70, FALSE, g),
           [PickupBody EXCEPT !.position = Vec(Milli(1100), Unit, 4 * Unit),
                              !.collider = updatePosition(@, Vec(Milli(1100), Unit, 4 * Unit)),
                              !.velocity = Vec(push, 0, 0)],
           Walker("player", Vec(0, Milli(1200), Milli(500)), Vec(0, -Unit, 0), 75, TRUE, TRUE)>>,
         <<StructureBody, GroundPlane("ground", [restitution |-> 5]),
           StaticBody("pillar", [position |-> Vec(-3 * Unit, Unit, 0),
                                 radius |-> Unit])>>,
         NoPlanet, MaxRunSteps) :
       speed \in {Unit, 3 * Unit}, push \in {-Unit, Unit}, g \in BOOLEAN}

\* dynamic bodies moving into static ones on the planet
PlanetCollideRuns ==
    {Run("collide", EngineDeltas,
         <<Walker("player", Vec(Milli(1300), Milli(20660), 0), Vec(-speed, 0, 0), 75, TRUE, TRUE),
           Walker("zombie", Vec(0, Milli(20700), Milli(-1900)), Vec(0, 0, -speed), 70, FALSE, g)>>,
         <<Planet(Zero3),
           BoxObstacle("structure", [position |-> Vec(0, 21 * Unit, 0),
                                     halfExtents |-> Vec(Unit, Unit, Unit),
                                     restitution |-> 2]),
           StaticBody("pillar", [position |-> Vec(0, 21 * Unit, -3 * Unit),
                                 radius |-> Unit])>>,
         Planet(Zero3), MaxRunSteps) :
       speed \in {Unit, 2 * Unit}, g \in BOOLEAN}

\* the player's body falling on the flat world, under any frame deltas
FrameRuns ==
    {Run("frames", AnyDeltas,
         <<Walker("player", Vec(0, 2 * Unit, 0), Zero3, 75, TRUE, TRUE)>>,
         <<>>, NoPlanet, MaxRunSteps)}

\* a rock half buried in the flat world's ground
Boulder ==
    StaticBody("boulder", [position |-> Vec(0, Milli(-1400), 0), radius |-> Unit,
                           restitution |-> 2])

\* a body falling on the flat world: from 9.908 m and 9.933 m on bare ground,
\* from 5 m on the boulder
FallRuns ==
    {Run("fall", {40},
         <<Walker("zombie", Vec(0, Milli(h), 0), Zero3, 70, FALSE, TRUE)>>,
         IF h = 5000 THEN <<Boulder>> ELSE <<>>, NoPlanet, MaxDropSteps) :
       h \in {9908, 9933, 5000}}

\* the player's body falling onto the planet at 80 m/s, from just outside the
\* band in which it would count as grounded
TunnelRuns ==
    {Run("tunnel", {40},
         <<Walker("player", p, VScale(p, -80, 21), 75, TRUE, TRUE)>>,
         <<Planet(Zero3)>>, Planet(Zero3), MaxRunSteps) :
       p \in {Vec(Milli(-21050), 0, 0), Vec(0, 0, Milli(21050))}}

Runs == ShellRuns \cup BuriedRuns \cup DropRuns \cup FlatCollideRuns
            \cup PlanetCollideRuns \cup FrameRuns \cup FallRuns \cup TunnelRuns

\* the world as the game has set it up for one of the runs
InitRuns(rs) ==
    /\ NoGame
    /\ \E r \in rs :
         /\ run = [name |-> r.name, deltas |-> r.deltas, bodies |-> r.bodies,
                   staticBodies |-> r.staticBodies]
         /\ bodies = r.bodies
         /\ staticBodies = r.staticBodies
         /\ planetBody = r.planetBody
         /\ budget = r.budget
         /\ probe = [kind |-> r.name, bounced |-> FALSE, apex |-> 0]
         /\ frame = [called |-> FALSE, bodies |-> r.bodies, accumulator |-> 0,
                     deltaTime |-> 0]
    /\ player = NoPlayer
    /\ accumulator = 0 /\ pc = "idle" /\ substep = 0 /\ stepDts = <<>>
    /\ last = [op |-> "none", timeStep |-> 0, contacts |-> {}]
    /\ prev = [op |-> "none", arg |-> Null]

NextSim ==
    \/ \E deltaTime \in run.deltas : UpdateBegin(deltaTime)
    \/ FixedStep
    \/ LeftoverStep
    \/ Return

InitSim == InitRuns(Runs)

SpecSim == InitSim /\ [][NextSim]_vars

\* the runs under any frame deltas; a call of update() runs to its end
InitFrames == InitRuns(FrameRuns)

SpecFrames ==
    /\ InitFrames /\ [][NextSim]_vars
    /\ WF_vars(FixedStep) /\ WF_vars(LeftoverStep) /\ WF_vars(Return)

-----------------------------------------------------------------------------
(* Properties of update() and the sub-step (SpecSim)                       *)

RECURSIVE SumSeq(_)
SumSeq(s) == IF s = <<>> THEN 0 ELSE Head(s) + SumSeq(Tail(s))

\* the sub-steps of the current (or last) call of update(): at most
\* maxSubSteps fixed ones, then at most one leftover step, which ends the call
UpdateBounded ==
    /\ substep <= maxSubSteps
    /\ Len(stepDts) <= maxSubSteps + 1
    /\ \A k \in 1..Len(stepDts) : k <= maxSubSteps => stepDts[k] = fixedTimeStep
    /\ Len(stepDts) = maxSubSteps + 1 => pc = "idle"
    /\ SumSeq(stepDts) <= maxSubSteps * fixedTimeStep
                            + (IF Len(stepDts) = maxSubSteps + 1
                               THEN stepDts[maxSubSteps + 1] ELSE 0)
    /\ SumSeq(stepDts) <= frame.accumulator + Min(frame.deltaTime, maxDelta)

\* C1: for any frame delta >= 0, however large, a call of update() terminates
\* after at most maxSubSteps fixed sub-steps plus at most one leftover
\* sub-step, so the simulated time it advances never exceeds
\* maxSubSteps * fixedTimeStep plus that one leftover step.
C1_UpdateTerminates == []UpdateBounded /\ (pc = "loop" ~> pc = "idle")

\* an update() given a delta far beyond every cap has returned after
\* maxSubSteps fixed sub-steps and the leftover one
C1_Witness ==
    /\ pc = "idle" /\ frame.called /\ frame.deltaTime = 100000 * Unit
    /\ Len(stepDts) = maxSubSteps + 1
    /\ stepDts[maxSubSteps + 1] > fixedTimeStep

\* the bodies that were at minSafeDistance - 1 from the planet's centre when
\* the last update() was called
BuriedAtCall ==
    {i \in 1..Len(bodies) :
        LengthSq(VSub(frame.bodies[i].position, planetBody.center))
            = (planetBody.minSafeDistance - Unit) * (planetBody.minSafeDistance - Unit)}

\* C2: with a planet field installed, a dynamic body at distance
\* minSafeDistance - 1 from the planet's centre is, after a single update(),
\* at distance >= minSafeDistance and has no inward radial velocity, for
\* every frame delta and every initial velocity.
C2_BuriedBodyTeleported ==
    (pc = "idle" /\ frame.called /\ planetBody # NoPlanet) =>
        \A i \in BuriedAtCall :
            LET fromCenter == VSub(bodies[i].position, planetBody.center)
            IN  /\ LengthSq(fromCenter)
                      >= planetBody.minSafeDistance * planetBody.minSafeDistance
                /\ Dot(bodies[i].velocity, Normalize(fromCenter)) >= 0

\* C3: every static body registered in the world has invMass 0 and the
\* position it was registered with, after any number of update() calls, in
\* both gravity modes and whatever dynamic bodies collide with it.
C3_StaticBodiesFixed ==
    /\ Len(staticBodies) = Len(run.staticBodies)
    /\ \A i \in 1..Len(staticBodies) :
          /\ staticBodies[i].invMass = QZero
          /\ staticBodies[i].position = run.staticBodies[i].position
          /\ staticBodies[i].collider.position = run.staticBodies[i].position

\* on the planet, the sub-step just made resolved the player's collision with
\* the static structure, and no static body has moved
C3_Witness ==
    /\ run.name = "collide" /\ planetBody # NoPlanet
    /\ last.op = "fixedUpdate"
    /\ <<"player", "structure">> \in last.contacts
    /\ bodies[1].velocity # run.bodies[1].velocity
    /\ \A i \in 1..Len(staticBodies) :
          staticBodies[i].position = run.staticBodies[i].position

\* 0.1 m and 0.1 m/s
DropTolerance == Unit \div 10

\* C6: under uniform gravity with no planet field, a sphere of restitution 1.0
\* dropped onto a GroundPlane of restitution 1.0 rebounds after one bounce to
\* within a small tolerance of its drop height; with restitution 0.0 it comes
\* to rest on the plane's surface with near-zero vertical velocity.
C6_RestitutionBounce ==
    (run.name = "drop" /\ budget = 0 /\ pc = "idle") =>
        LET ball == bodies[1]
        IN  /\ ball.restitution = 10 =>
                  /\ probe.bounced
                  /\ probe.apex >= run.bodies[1].position[2] - DropTolerance
            /\ ball.restitution = 0 =>
                  /\ Abs(ball.velocity[2]) <= DropTolerance
                  /\ Abs(ball.position[2] - ball.radius) <= DropTolerance

\* how far a body is from the ideal shell distance of the planet
ShellError(body) ==
    Abs(planetBody.radius + planetBody.surfaceOffset + RadiusOr(body, Unit \div 2)
          - Length(VSub(body.position, planetBody.center)))

\* C7: under a planet field of radius 20 with no other bodies, a dynamic
\* gravity-using body that starts exactly at the ideal shell distance with
\* zero velocity stays within groundThreshold of that distance after each of
\* 100 consecutive fixed sub-steps.
C7_ShellBodyStays ==
    run.name = "shell" =>
        \A i \in 1..Len(bodies) : ShellError(bodies[i]) < planetBody.groundThreshold

\* the run on the shell has made all its sub-steps, under the south pole too
C7_Witness ==
    /\ run.name = "shell" /\ budget = 0 /\ pc = "idle"
    /\ last.op = "fixedUpdate"
    /\ run.bodies[1].position[2] < 0
    /\ bodies[1].onGround
    /\ ShellError(bodies[1]) < planetBody.groundThreshold

-----------------------------------------------------------------------------
(* Installing the planet: main.js, Renderer.createPlanetPhysics (SpecPlanet) *)

\* main.js: new PlanetBody({radius: 40, position: (0, -40, 0), gravityStrength: 25})
MainPlanet ==
    PlanetBody("mainPlanet", [radius |-> 40 * Unit, position |-> Vec(0, -40 * Unit, 0),
                              gravityStrength |-> 25])

\* the objects createPlanetPhysics may create: every call makes a new one
MapPlanetIds == <<"mapPlanet1", "mapPlanet2", "mapPlanet3", "mapPlanet4", "mapPlanet5">>

\* ids of the planet bodies held in a list
PlanetIds(ss) == {ss[i].id : i \in {k \in 1..Len(ss) : ss[k].isPlanet}}

\* the identity of the next object created by new PlanetBody(...)
NewPlanetId(ss, field) ==
    LET free == {k \in 1..Len(MapPlanetIds) :
                    MapPlanetIds[k] \notin PlanetIds(ss) \cup {field.id}}
    IN  MapPlanetIds[CHOOSE k \in free : \A j \in free : k <= j]

\* terrainData.radius || 20
TerrainRadii == {20 * Unit, 30 * Unit}

\* PhysicsWorld.setPlanetBody(planetBody): the new value of the field
setPlanetBody(field, p) == p

\* Renderer.createPlanetPhysics(radius)
createPlanetPhysics(bs, ss, field, radius) ==
    LET p == PlanetBody(NewPlanetId(ss, field),
                        [radius |-> radius, position |-> Zero3, restitution |-> 3])
        r == addBody(bs, ss, p)
    IN  [bodies |-> r.bodies, staticBodies |-> r.staticBodies, planetBody |-> p]

\* what main.js, the map loader and the game hand to addBody
PlanetAddArgs == {MainPlanet, ZombieBody, StructureBody}

AddToWorld(o) ==
    /\ Len(bodies) + Len(staticBodies) < MaxBodies
    /\ LET r == addBody(bodies, staticBodies, o)
       IN  /\ bodies' = r.bodies
           /\ staticBodies' = r.staticBodies
           /\ Recorded("addBody", o, r.ret)
    /\ UNCHANGED gameVars
    /\ UNCHANGED <<planetBody, accumulator, player, pc, substep, stepDts, frame,
                   budget, run, probe>>

SetPlanetBody(p) ==
    /\ planetBody' = setPlanetBody(planetBody, p)
    /\ Recorded("setPlanetBody", p, Null)
    /\ UNCHANGED gameVars
    /\ UNCHANGED <<bodies, staticBodies, accumulator, player, pc, substep, stepDts,
                   frame, budget, run, probe>>

CreatePlanetPhysics(radius) ==
    /\ Len(bodies) + Len(staticBodies) < MaxBodies
    /\ LET r == createPlanetPhysics(bodies, staticBodies, planetBody, radius)
       IN  /\ bodies' = r.bodies
           /\ staticBodies' = r.staticBodies
           /\ planetBody' = r.planetBody
           /\ Recorded("createPlanetPhysics", r.planetBody, Null)
    /\ UNCHANGED gameVars
    /\ UNCHANGED <<accumulator, player, pc, substep, stepDts, frame, budget, run, probe>>

\* Engine.unloadCurrentMap: this.physics.clear()
UnloadMap ==
    /\ LET r == clear(player)
       IN  /\ bodies' = r.bodies
           /\ staticBodies' = r.staticBodies
           /\ Recorded("clear", Null, r.ret)
    /\ UNCHANGED gameVars
    /\ UNCHANGED <<planetBody, accumulator, player, pc, substep, stepDts, frame,
                   budget, run, probe>>

NextPlanet ==
    \/ \E o \in PlanetAddArgs : AddToWorld(o)
    \/ \E p \in {MainPlanet} : SetPlanetBody(p)
    \/ \E radius \in TerrainRadii : CreatePlanetPhysics(radius)
    \/ UnloadMap

SpecPlanet == InitWorld /\ [][NextPlanet]_vars

\* C11: after any sequence of addBody, setPlanetBody, createPlanetPhysics and
\* clear, the world holds at most one planet field: staticBodies holds at
\* most one planet body, and once a field has been installed (setPlanetBody,
\* createPlanetPhysics) no planet body other than that field is left in it.
C11_AtMostOnePlanet ==
    /\ Cardinality(PlanetIds(staticBodies)) <= 1
    /\ last.op \in {"setPlanetBody", "createPlanetPhysics"}
          => \A id \in PlanetIds(staticBodies) : planetBody.id = id

-----------------------------------------------------------------------------
(* Constructing bodies (SpecConstruct)                                     *)

\* options = {}
NoOptions == [f \in {} |-> 0]

\* the mass option: absent, negative, zero, positive
OptionMasses == {-5, 0, 1, 70, 75}

\* the options objects handed to the constructors
ProbeOptions ==
    {mass @@ static @@ shape @@ uses :
        mass \in {NoOptions} \cup {[mass |-> k] : k \in OptionMasses},
        static \in {NoOptions} \cup {[isStatic |-> s] : s \in BOOLEAN},
        shape \in {NoOptions, [radius |-> Unit \div 2],
                   [halfExtents |-> Vec(Unit, Unit, Unit)]},
        uses \in {NoOptions, [usesGravity |-> FALSE]}}

\* new cls(options)
Construct(cls, o) ==
    CASE cls = "PhysicsBody" -> PhysicsBody("probe", o)
      [] cls = "StaticBody"  -> StaticBody("probe", o)
      [] cls = "BoxObstacle" -> BoxObstacle("probe", o)
      [] cls = "GroundPlane" -> GroundPlane("probe", o)

InitConstruct ==
    /\ NoGame
    /\ WorldIdle /\ planetBody = NoPlanet /\ accumulator = 0 /\ pc = "idle"
    /\ substep = 0 /\ stepDts = <<>> /\ frame = 0 /\ budget = 0 /\ run = 0
    /\ \E cls \in {"PhysicsBody", "StaticBody", "BoxObstacle", "GroundPlane"},
          o \in ProbeOptions :
            probe = [kind |-> "construct", done |-> FALSE, cls |-> cls,
                     options |-> o, body |-> Null]

New ==
    /\ probe.kind = "construct" /\ ~probe.done
    /\ probe' = [probe EXCEPT !.done = TRUE,
                              !.body = Construct(probe.cls, probe.options)]
    /\ UNCHANGED gameVars
    /\ UNCHANGED <<bodies, staticBodies, planetBody, accumulator, player, pc,
                   substep, stepDts, frame, budget, run, last, prev>>

NextConstruct == New

SpecConstruct == InitConstruct /\ [][NextConstruct]_vars

\* C12: for every PhysicsBody, whatever mass and isStatic options it was
\* constructed with (mass 0 or negative with isStatic false included), its
\* inverse mass is 0 if and only if it is static.
C12_InvMassZeroIffStatic ==
    (probe.kind = "construct" /\ probe.done)
        => (QIsZero(probe.body.invMass) <=> probe.body.isStatic)

-----------------------------------------------------------------------------
(* Properties of the sub-step's phases (SpecSim)                           *)

\* a fixed sub-step has just finished
StepDone == last.op = "fixedUpdate"

\* C13: at the end of every fixed sub-step, with or without a planet, the
\* collider of every registered body is centred on the body's position:
\* every phase that changes a position also repositions the collider.
C13_ColliderFollowsPosition ==
    StepDone =>
        /\ \A i \in 1..Len(bodies) : bodies[i].collider.position = bodies[i].position
        /\ \A i \in 1..Len(staticBodies) :
              staticBodies[i].collider.position = staticBodies[i].position

\* the positions in the last sub-step's trace of the events of one pass
EventsOf(name) == {k \in DOMAIN last.trace : last.trace[k].phase = name}

\* what the pass called name left of the body called id in the last sub-step
EventOf(name, id) ==
    last.trace[CHOOSE k \in EventsOf(name) : last.trace[k].id = id]

\* every body the sub-step started from has exactly one event of the pass
EveryBodyHad(name) ==
    /\ Cardinality(EventsOf(name)) = Len(prev.bodies)
    /\ \A i \in 1..Len(prev.bodies) :
          \E k \in EventsOf(name) : last.trace[k].id = prev.bodies[i].id

\* two vectors agree to within tol steps in every component
Near(a, b, tol) == \A c \in 1..3 : Abs(a[c] - b[c]) <= tol

\* the acceleration of the planet's gravity at a position
RadialGravity(planet, position) ==
    VScale(Normalize(VSub(planet.center, position)), planet.gravityStrength, 1)

\* the body is, at the end of the sub-step, as the pass called name left it
LeftAsBy(name, body) ==
    LET e == EventOf(name, body.id)
    IN  /\ body.position = e.position /\ body.velocity = e.velocity
        /\ body.onGround = e.onGround

\* C14: in every sub-step exactly one gravity model acts. With a planet
\* installed the safety, radial-gravity and surface passes run for every body,
\* the acceleration is the planet's radial gravity (no uniform gravity) and no
\* flat-world bounds check touches a body; without one the uniform gravity and
\* the bounds check run for every body and no planet pass does.
C14_OneGravityModel ==
    StepDone =>
        IF planetBody # NoPlanet
        THEN /\ EveryBodyHad("safety") /\ EveryBodyHad("gravity") /\ EveryBodyHad("surface")
             /\ EventsOf("checkWorldBounds") = {}
             /\ \A i \in 1..Len(prev.bodies) :
                   LET b == prev.bodies[i]
                       e == EventOf("gravity", b.id)
                   IN  /\ b.forces = Zero3 =>
                            IF b.usesGravity
                            THEN Near(e.acceleration, RadialGravity(planetBody, e.position), 30)
                            ELSE e.acceleration = Zero3
                       /\ last.contacts = {} => LeftAsBy("surface", bodies[i])
        ELSE /\ EveryBodyHad("gravity") /\ EveryBodyHad("checkWorldBounds")
             /\ EventsOf("safety") = {} /\ EventsOf("surface") = {}
             /\ \A i \in 1..Len(prev.bodies) :
                   LET b == prev.bodies[i]
                       e == EventOf("gravity", b.id)
                   IN  /\ e.acceleration = IF b.usesGravity THEN gravity ELSE Zero3
                       /\ LeftAsBy("checkWorldBounds", bodies[i])

\* on the planet's southern half a body that uses gravity has been stepped:
\* it is below the flat world's ground level and is pulled sideways
C14_Witness ==
    /\ StepDone /\ planetBody # NoPlanet
    /\ \E i \in 1..Len(bodies) :
          /\ bodies[i].usesGravity /\ prev.bodies[i].forces = Zero3
          /\ bodies[i].position[2] < 0
          /\ bodies[i].acceleration[3] > 0

\* the (pass, body) pairs of one pass over the bodies the sub-step started from
PassOver(name) == [k \in 1..Len(prev.bodies) |-> <<name, prev.bodies[k].id>>]

\* the passes in the order (1) to (6), each over all bodies in list order
PassesInOrder ==
    (IF planetBody # NoPlanet THEN PassOver("safety") ELSE <<>>)
        \o PassOver("integrateVelocity")
        \o PassOver("gravity")
        \o (IF planetBody # NoPlanet THEN PassOver("surface") ELSE <<>>)
        \o << <<"detectCollisions", "world">> >>
        \o (IF planetBody = NoPlanet THEN PassOver("checkWorldBounds") ELSE <<>>)

\* C15: every sub-step runs its phases in the fixed order (1) safety teleport
\* (planet only), (2) velocity-to-position integration using the velocities
\* the bodies had at the start of the sub-step, (3) gravity and force
\* integration, (4) surface interaction (planet only), (5) collision detection
\* and resolution, (6) flat bounds check (no planet only); no phase starts for
\* any body before the previous one has finished for all bodies.
C15_PhaseOrder ==
    StepDone =>
        /\ [k \in DOMAIN last.trace |-> <<last.trace[k].phase, last.trace[k].id>>]
              = PassesInOrder
        /\ \A i \in 1..Len(prev.bodies) :
              LET b == prev.bodies[i]
                  start == IF planetBody # NoPlanet THEN EventOf("safety", b.id) ELSE b
                  moved == EventOf("integrateVelocity", b.id)
              IN  /\ start.position = b.position => start.velocity = b.velocity
                  /\ moved.position
                        = VAdd(start.position, TimesDt(start.velocity, last.timeStep))

\* a sub-step on the planet with two bodies, one of them moving and falling,
\* in which a collision was resolved
C15_Witness ==
    /\ StepDone /\ planetBody # NoPlanet /\ Len(bodies) >= 2
    /\ last.contacts # {}
    /\ \E i \in 1..Len(bodies) :
          /\ prev.bodies[i].velocity # Zero3
          /\ EventOf("gravity", prev.bodies[i].id).velocity # prev.bodies[i].velocity

-----------------------------------------------------------------------------
(* Properties of the scheduler's sub-steps (SpecFrames)                    *)

\* C16: every sub-step update() runs integrates with a timestep no larger
\* than fixedTimeStep: up to maxSubSteps sub-steps of exactly fixedTimeStep
\* and, only when the cap was reached with time still pending, one final
\* partial sub-step shorter than fixedTimeStep, after which the accumulator
\* is zero.
C16_StepsAtMostFixed ==
    /\ Len(stepDts) <= maxSubSteps + 1
    /\ \A k \in 1..Len(stepDts) :
          IF k <= maxSubSteps
          THEN stepDts[k] = fixedTimeStep
          ELSE /\ stepDts[k] < fixedTimeStep
               /\ accumulator = 0

-----------------------------------------------------------------------------
(* resolveCollision on one intersecting pair (SpecResolve)                 *)

\* where body A of a probed pair stands
ProbeCentre == Vec(0, Unit, 0)

\* the velocities of the probed bodies along the x axis
ProbeSpeeds == {-Unit, 0, Unit}

\* how deep the probed pair overlaps along the x axis: touching, 0.1
ProbeDepths == {0, Unit \div 10}

\* body A of a pair: a body of this.bodies (player, zombie, pickup)
ProbeBodiesA(v) ==
    {Walker("player", ProbeCentre, Vec(v, 0, 0), 75, TRUE, TRUE),
     Walker("zombie", ProbeCentre, Vec(v, 0, 0), 70, FALSE, TRUE),
     PhysicsBody("pickup", [position |-> ProbeCentre, velocity |-> Vec(v, 0, 0),
                            mass |-> 5, restitution |-> 3,
                            halfExtents |-> Vec(Unit \div 5, Unit \div 10, Unit \div 2)])}

\* body B of a pair: a later body of this.bodies or one of this.staticBodies
ProbeBodiesB(position) ==
    {Walker("zombie2", position, Vec(v, 0, 0), 70, FALSE, TRUE) : v \in ProbeSpeeds}
      \cup {PhysicsBody("pickup2", [position |-> position, velocity |-> Vec(v, 0, 0),
                                    mass |-> 5, restitution |-> 3,
                                    halfExtents |-> Vec(Unit \div 5, Unit \div 10, Unit \div 2)]) :
               v \in ProbeSpeeds}
      \cup {BoxObstacle("structure", [position |-> position, restitution |-> 2,
                                      halfExtents |-> Vec(Unit, Unit, Unit)]),
            StaticBody("pillar", [position |-> position, radius |-> Unit])}

\* half the width of a body's collider along the x axis
ExtentX(b) == IF b.collider.shape = "sphere" THEN b.collider.radius
              ELSE b.collider.halfExtents[1]

\* the pairs detectCollisions hands to resolveCollision: B beside A on the x
\* axis, on either side, touching or overlapping, and checkCollision true
InitResolve ==
    /\ NoGame
    /\ WorldIdle /\ planetBody = NoPlanet /\ accumulator = 0 /\ pc = "idle"
    /\ substep = 0 /\ stepDts = <<>> /\ frame = 0 /\ budget = 0 /\ run = 0
    /\ \E v \in ProbeSpeeds, side \in {-1, 1}, depth \in ProbeDepths :
         \E a \in ProbeBodiesA(v) :
            \E shape \in ProbeBodiesB(ProbeCentre) :
               \E b \in ProbeBodiesB(VAdd(ProbeCentre,
                             Vec(side * (ExtentX(a) + ExtentX(shape) - depth), 0, 0))) :
                  /\ b.id = shape.id
                  /\ checkCollision(a, b)
                  /\ probe = [kind |-> "resolve", done |-> FALSE, a |-> a, b |-> b,
                              depth |-> depth, out |-> Resolution(a, b, FALSE)]

\* this.resolveCollision(bodyA, bodyB)
Resolve ==
    /\ probe.kind = "resolve" /\ ~probe.done
    /\ probe' = [probe EXCEPT !.done = TRUE,
                              !.out = resolveCollision(probe.a, probe.b)]
    /\ UNCHANGED gameVars
    /\ UNCHANGED <<bodies, staticBodies, planetBody, accumulator, player, pc,
                   substep, stepDts, frame, budget, run, last, prev>>

NextResolve == Resolve

SpecResolve == InitResolve /\ [][NextResolve]_vars

\* resolveCollision has been called on the probed pair
Resolved == probe.kind = "resolve" /\ probe.done

\* +1 when A stands on the positive side of B along the x axis, else -1
SideOfA == IF probe.a.position[1] > probe.b.position[1] THEN 1 ELSE -1

\* the speed at which A moves away from B (negative: the pair is approaching)
\* for the velocities va of A and vb of B
PartingSpeed(va, vb) == (va[1] - vb[1]) * SideOfA

\* C17: for every overlapping pair, whatever the pairing of collider shapes,
\* resolveCollision leaves both bodies unchanged when they are already moving
\* apart, and resolves a pair that is approaching so that afterwards it no
\* longer approaches.
C17_ApproachingPairsResolved ==
    Resolved =>
        LET before == PartingSpeed(probe.a.velocity, probe.b.velocity)
            after == PartingSpeed(probe.out.a.velocity, probe.out.b.velocity)
        IN  /\ before > 0 => (probe.out.a = probe.a /\ probe.out.b = probe.b)
            /\ before < 0 => (probe.out.resolved /\ after >= 0)

\* C18: in every collision resolveCollision resolves, on the detailed path and
\* on the fallback path, the restitution used is min(A.restitution,
\* B.restitution), also when one of them is 0: the pair parts at that fraction
\* of the speed at which it met.
C18_RestitutionIsMin ==
    (Resolved /\ probe.out.resolved) =>
        LET before == PartingSpeed(probe.a.velocity, probe.b.velocity)
            after == PartingSpeed(probe.out.a.velocity, probe.out.b.velocity)
            restitution == Min(probe.a.restitution, probe.b.restitution)
        IN  Abs(10 * after + restitution * before) <= 30

\* how far resolveCollision has moved a body along the x axis, counted
\* positive away from the other body of the pair
MovedAway(before, after, side) == (after.position[1] - before.position[1]) * side

\* a body's share invMass / invMassSum of a length, for the probed pair
ShareOf(body, length) ==
    LET share == QDiv(body.invMass, QAdd(probe.a.invMass, probe.b.invMass))
    IN  RDiv(length * share[1], share[2])

\* C19: the positional correction of a resolved collision never increases the
\* overlap: each body with non-zero inverse mass is moved away from the other
\* by depth * factor * its share of the inverse mass, and a body with zero
\* inverse mass is not moved; for every pairing of shapes, box-box and
\* box-sphere with the box as body A included.
C19_CorrectionSeparates ==
    (Resolved /\ probe.out.resolved) =>
        LET movedA == MovedAway(probe.a, probe.out.a, SideOfA)
            movedB == MovedAway(probe.b, probe.out.b, -SideOfA)
        IN  /\ movedA >= 0 /\ movedB >= 0
            /\ QIsZero(probe.a.invMass) => probe.out.a.position = probe.a.position
            /\ QIsZero(probe.b.invMass) => probe.out.b.position = probe.b.position
            /\ probe.depth > 0 =>
                  /\ Abs(movedA - ShareOf(probe.a, RDiv(probe.depth, 10))) <= 1
                  /\ Abs(movedB - ShareOf(probe.b, RDiv(probe.depth, 10))) <= 1

-----------------------------------------------------------------------------
(* Properties of the planet's surface pass (SpecSim)                       *)

\* |idealDistance - d| < groundThreshold for a body at a position on a planet
WithinGroundThreshold(planet, body, position) ==
    LET d == Length(VSub(position, planet.center))
        idealDistance == planet.radius + planet.surfaceOffset + RadiusOr(body, Unit \div 2)
    IN  Abs(idealDistance - d) < planet.groundThreshold

\* C20: with a planet installed, after every sub-step the onGround flag of
\* each dynamic body has been recomputed and equals
\* |idealDistance - d| < groundThreshold, d being the body's distance from the
\* planet's centre at the end of the surface-interaction phase; for every
\* dynamic body, those built with usesGravity false and those the surface
\* phase teleported included.
C20_OnGroundRecomputed ==
    (StepDone /\ planetBody # NoPlanet) =>
        \A i \in 1..Len(bodies) :
            bodies[i].onGround
              <=> WithinGroundThreshold(planetBody, bodies[i],
                                        EventOf("surface", bodies[i].id).position)

-----------------------------------------------------------------------------
(* Properties of the flat world's bounds check (SpecSim)                   *)

\* the height checkWorldBounds lifts a sunken body to: 0.05
minimumHeight == Unit \div 20

\* C21: with no planet installed, after the bounds check of a sub-step every
\* dynamic body whose height was below the ground threshold sits at or above
\* the minimum height, is grounded and has no downward vertical velocity,
\* whatever its vertical velocity was before the check; every body at or
\* above the threshold is not grounded.  (The check moves a body only from
\* below 0 to the minimum height, so a body is below the threshold after the
\* check exactly if it was below it before.)
C21_BoundsCheckGrounds ==
    (StepDone /\ planetBody = NoPlanet) =>
        \A i \in 1..Len(bodies) :
            IF bodies[i].position[2] < groundThreshold
            THEN /\ bodies[i].position[2] >= minimumHeight
                 /\ bodies[i].onGround
                 /\ bodies[i].velocity[2] >= 0
            ELSE ~bodies[i].onGround

-----------------------------------------------------------------------------
(* Properties of the surface normal the planet writes (SpecSim)            *)

\* C22: whenever the surface-interaction pass writes a body's
\* entity.surfaceNormal, the written vector is the unit-length direction from
\* the planet's centre to the body's position at that time, also in the
\* sub-step in which the safety teleport inside that pass has moved the body.
C22_SurfaceNormalIsUnitRadial ==
    (StepDone /\ planetBody # NoPlanet) =>
        \A i \in 1..Len(bodies) :
            (bodies[i].hasEntity /\ bodies[i].usesGravity) =>
                Near(bodies[i].surfaceNormal,
                     Normalize(VSub(EventOf("surface", bodies[i].id).position,
                                    planetBody.center)),
                     2)

-----------------------------------------------------------------------------
(* Entities and their bodies (SpecEntities)                                *)

\* new Zombie(engine, position): the fields the model follows; id 0 is the
\* null id of an entity the manager has not numbered yet
Zombie(name) ==
    [name |-> name, id |-> 0, type |-> "zombie", enabled |-> TRUE,
     isAlive |-> TRUE, state |-> "idle", health |-> 100,
     position |-> ZombieBody.position,
     timeSinceSpawn |-> 0, lastAttackTime |-> 0,
     canSeePlayer |-> FALSE, updatePerceptionTime |-> 0,
     physicsBody |-> [ZombieBody EXCEPT !.id = name]]

\* new WeaponPickup(options)
WeaponPickup(name) ==
    [name |-> name, id |-> 0, type |-> "weaponPickup",
     physicsBody |-> [PickupBody EXCEPT !.id = name]]

\* new EntityManager(engine)
NewEntityManager == [entities |-> <<>>, nextEntityId |-> 1]

\* what a call leaves of the heap, the manager and the world's lists
Game(objs, em, bs, ss) ==
    [objects |-> objs, entityManager |-> em, bodies |-> bs, staticBodies |-> ss]

\* Zombie.init(engine) and WeaponPickup.init(engine), up to the first await:
\* the entity's body is added to the world
entityInit(g, name) ==
    LET w == addBody(g.bodies, g.staticBodies, g.objects[name].physicsBody)
    IN  [g EXCEPT !.bodies = w.bodies, !.staticBodies = w.staticBodies]

\* EntityManager.addEntity(entity); entity_<n> is kept as n
addEntity(g, name) ==
    LET fresh == g.objects[name].id = 0
        g1 == IF fresh
              THEN [g EXCEPT !.objects[name].id = g.entityManager.nextEntityId,
                             !.entityManager.nextEntityId = @ + 1]
              ELSE g
        g2 == [g1 EXCEPT !.entityManager.entities = Append(@, name)]
    IN  entityInit(g2, name)

\* Zombie.destroy() and WeaponPickup.destroy()
destroy(g, name) ==
    LET w == removeBody(g.bodies, g.staticBodies, g.objects[name].physicsBody)
        g1 == [g EXCEPT !.bodies = w.bodies, !.staticBodies = w.staticBodies]
    IN  IF g.objects[name].type = "zombie"
        THEN [g1 EXCEPT !.objects[name].enabled = FALSE]
        ELSE g1

\* entities.findIndex(e => e.id === id); 0 when there is none
FindIndex(g, id) ==
    LET es == g.entityManager.entities
    IN  IF \E i \in 1..Len(es) : g.objects[es[i]].id = id
        THEN CHOOSE i \in 1..Len(es) :
                /\ g.objects[es[i]].id = id
                /\ \A j \in 1..(i - 1) : g.objects[es[j]].id # id
        ELSE 0

\* EntityManager.removeEntity(entity): what it leaves, and whether it removed
removeEntity(g, name) ==
    LET index == FindIndex(g, g.objects[name].id)
    IN  IF index = 0
        THEN [game |-> g, ret |-> FALSE]
        ELSE LET entity == g.entityManager.entities[index]
                 g1 == [g EXCEPT !.entityManager.entities = Splice(@, index)]
             IN  [game |-> destroy(g1, entity), ret |-> TRUE]

\* a removeEntity call that removed: the entity and the world's bodies after it
Removal(name, g) == [entity |-> name, bodies |-> g.bodies]

\* the calls of removeEntity on names[1..n] in turn: what they leave, and the
\* removals they made
RECURSIVE removeEach(_, _, _)
removeEach(g, names, n) ==
    IF n = 0 THEN [game |-> g, removed |-> <<>>]
    ELSE LET before == removeEach(g, names, n - 1)
             r == removeEntity(before.game, names[n])
         IN  [game |-> r.game,
              removed |-> IF r.ret
                          THEN Append(before.removed, Removal(names[n], r.game))
                          ELSE before.removed]

\* a sequence back to front
Reverse(seq) == [i \in 1..Len(seq) |-> seq[Len(seq) + 1 - i]]

\* EntityManager.clearNonPlayerEntities(): no entity of the game is the player
clearNonPlayerEntities(g) ==
    removeEach(g, Reverse(g.entityManager.entities), Len(g.entityManager.entities))

\* Engine.unloadCurrentMap(), up to its await: the entities, the world, the
\* enemies
unloadCurrentMap(g, enemies) ==
    LET c == clearNonPlayerEntities(g)
        w == clear(player)
        g1 == [c.game EXCEPT !.bodies = w.bodies, !.staticBodies = w.staticBodies]
        e == removeEach(g1, enemies, Len(enemies))
    IN  [game |-> e.game, removed |-> c.removed \o e.removed]

\* the zombies EnemyManager spawns, the test zombie of main.js, the pickups of
\* the maps
EnemyNames == {"zombie1"}
TestZombieName == "testZombie"
PickupNames == {"pickup1", "pickup2"}

\* Engine.init: the managers and the player; no map yet
InitEntities ==
    /\ player = [exists |-> TRUE, physicsBody |-> PlayerBody]
    /\ bodies = <<PlayerBody>> /\ staticBodies = <<>>
    /\ last = [op |-> "init", arg |-> Null, removed |-> <<>>]
    /\ prev = [op |-> "none", arg |-> Null]
    /\ SimIdle
    /\ objects = <<>> /\ entityManager = NewEntityManager /\ tasks = {}
    /\ engine = [isRunning |-> FALSE, isPaused |-> FALSE, currentMap |-> Null,
                 enemies |-> <<>>]
    /\ weapon = 0 /\ assets = 0 /\ now = 0

TheGame == Game(objects, entityManager, bodies, staticBodies)

Becomes(g) ==
    /\ objects' = g.objects /\ entityManager' = g.entityManager
    /\ bodies' = g.bodies /\ staticBodies' = g.staticBodies

Did(op, arg, removed) ==
    /\ last' = [op |-> op, arg |-> arg, removed |-> removed]
    /\ UNCHANGED prev

\* EnemyManager.spawnZombie(position) and the timer of main.js, up to the
\* await of zombie.init(): the zombie is made and initialised
SpawnZombie(name, kind) ==
    /\ name \notin DOMAIN objects
    /\ Becomes(entityInit([TheGame EXCEPT !.objects = @ @@ (name :> Zombie(name))],
                          name))
    /\ tasks' = tasks \cup {[kind |-> kind, entity |-> name]}
    /\ Did(kind, name, <<>>)
    /\ UNCHANGED <<planetBody, accumulator, player, pc, substep, stepDts, frame,
                   budget, run, probe, engine, weapon, assets, now>>

\* after the await: entityManager.addEntity(zombie), and enemies.push(zombie)
\* in spawnZombie
SpawnZombieResume(t) ==
    /\ t \in tasks /\ t.kind \in {"spawnZombie", "testZombie"}
    /\ Becomes(addEntity(TheGame, t.entity))
    /\ tasks' = tasks \ {t}
    /\ engine' = IF t.kind = "spawnZombie"
                 THEN [engine EXCEPT !.enemies = Append(@, t.entity)]
                 ELSE engine
    /\ Did("addEntity", t.entity, <<>>)
    /\ UNCHANGED <<planetBody, accumulator, player, pc, substep, stepDts, frame,
                   budget, run, probe, weapon, assets, now>>

\* Engine.loadMap(mapId) with no map loaded: MapLoader.spawnWeapons adds the
\* map's pickup
LoadMap(name) ==
    /\ engine.currentMap = Null
    /\ name \notin DOMAIN objects
    /\ Becomes(addEntity([TheGame EXCEPT !.objects = @ @@ (name :> WeaponPickup(name))],
                         name))
    /\ engine' = [engine EXCEPT !.currentMap = [cls |-> "map", id |-> "example_map"]]
    /\ Did("loadMap", name, <<>>)
    /\ UNCHANGED <<planetBody, accumulator, player, pc, substep, stepDts, frame,
                   budget, run, probe, tasks, weapon, assets, now>>

\* WeaponPickup.interact(player): entityManager.removeEntity(this)
Interact(name) ==
    /\ \E i \in 1..Len(entityManager.entities) : entityManager.entities[i] = name
    /\ objects[name].type = "weaponPickup"
    /\ LET r == removeEntity(TheGame, name)
       IN  /\ Becomes(r.game)
           /\ Did("interact", name, <<Removal(name, r.game)>>)
    /\ UNCHANGED <<planetBody, accumulator, player, pc, substep, stepDts, frame,
                   budget, run, probe, tasks, engine, weapon, assets, now>>

\* Engine.unloadCurrentMap()
UnloadCurrentMap ==
    /\ engine.currentMap # Null
    /\ LET r == unloadCurrentMap(TheGame, engine.enemies)
       IN  /\ Becomes(r.game)
           /\ Did("unloadCurrentMap", Null, r.removed)
    /\ engine' = [engine EXCEPT !.currentMap = Null, !.enemies = <<>>]
    /\ UNCHANGED <<planetBody, accumulator, player, pc, substep, stepDts, frame,
                   budget, run, probe, tasks, weapon, assets, now>>

NextEntities ==
    \/ \E name \in EnemyNames : SpawnZombie(name, "spawnZombie")
    \/ SpawnZombie(TestZombieName, "testZombie")
    \/ \E t \in tasks : SpawnZombieResume(t)
    \/ \E name \in PickupNames : LoadMap(name)
    \/ \E name \in PickupNames : Interact(name)
    \/ UnloadCurrentMap

SpecEntities == InitEntities /\ [][NextEntities]_vars

\* the bodies of the world, dynamic and static
AllBodies == bodies \o staticBodies

\* C23: after any sequence of the collaborators' calls (spawning zombies and
\* pickups, removing entities, unloading the map), every body occurs at most
\* once in bodies and staticBodies combined.
C23_NoBodyTwice ==
    \A i, j \in 1..Len(AllBodies) : AllBodies[i].id = AllBodies[j].id => i = j

\* C24: when an entity that owns a physics body (a zombie, a weapon pickup) has
\* been removed through EntityManager.removeEntity, its body is no longer in
\* the world's bodies, however the entity was spawned.
C24_RemovedEntityLeavesWorld ==
    \A k \in 1..Len(last.removed) :
        IndexOf(last.removed[k].bodies,
                objects[last.removed[k].entity].physicsBody) = 0

\* C25: at the end of every fixed sub-step the force accumulator of every
\* dynamic body is zero: no force, of gravity or of the planet's push, is
\* carried into the next sub-step.
C25_ForcesClearedEachStep ==
    StepDone => \A i \in 1..Len(bodies) : bodies[i].forces = Zero3

-----------------------------------------------------------------------------
(* Frames, pause and the zombies' attack timers (SpecCombat)               *)
(* Times are in ticks, the clock's as well as the game's.                  *)

\* Zombie: attackRange 1.8, attackCooldown 1.2 s, detectionRange 15,
\* perceptionUpdateRate 0.2 s; the delays of its two attack timers
attackRange == Milli(1800)
attackCooldown == Milli(1200)
detectionRange == 15 * Unit
perceptionUpdateRate == Milli(200)
damageDelay == Milli(500)
chaseDelay == Milli(1200)

\* Player: invulnerabilityDuration 500 ms, and the delay of the respawn timer
invulnerabilityDuration == Milli(500)
respawnDelay == Milli(3000)

\* Engine.gameLoop: the cap of a frame's deltaTime, 1/30 s
frameCap == Unit \div 30

\* a setTimeout callback that has not run yet
Timer(kind, name, due) == [kind |-> kind, entity |-> name, due |-> due]

\* position.distanceTo(player.position), rounded
DistanceTo(a, b) == Length(VSub(a, b))

\* Zombie.changeState(newState)
changeState(z, newState) ==
    IF newState = z.state THEN z
    ELSE [z EXCEPT !.state = newState,
                   !.isAlive = IF newState = "death" THEN FALSE ELSE @]

\* Zombie.takeDamage(amount)
zombieTakeDamage(z, amount) ==
    LET z1 == [z EXCEPT !.health = @ - amount]
    IN  IF z1.health <= 0 /\ z1.isAlive THEN changeState(z1, "death") ELSE z1

\* Player.takeDamage(amount) at currentTime: the player after it, and the
\* respawn timer die() sets
takeDamage(p, amount, currentTime) ==
    IF currentTime - p.lastDamageTime < invulnerabilityDuration \/ p.isDead
    THEN [player |-> p, timers |-> {}]
    ELSE LET p1 == [p EXCEPT !.health = @ - amount, !.lastDamageTime = currentTime]
         IN  IF p1.health <= 0
             THEN [player |-> [p1 EXCEPT !.health = 0, !.isDead = TRUE],
                   timers |-> {Timer("respawn", "player", currentTime + respawnDelay)}]
             ELSE [player |-> p1, timers |-> {}]

\* Player.respawn()
respawn(p) == [p EXCEPT !.health = p.maxHealth, !.isDead = FALSE]

\* Zombie.updatePerception(deltaTime): the player is seen within
\* detectionRange (never below the horizon at these ranges)
updatePerception(z, deltaTime, p) ==
    LET t == z.updatePerceptionTime - deltaTime
    IN  IF t > 0 THEN [z EXCEPT !.updatePerceptionTime = t]
        ELSE LET sees == DistanceTo(z.position, p.position) <= detectionRange
                 z1 == [z EXCEPT !.updatePerceptionTime = perceptionUpdateRate,
                                 !.canSeePlayer = sees]
             IN  IF sees /\ ~z.canSeePlayer /\ z.state = "idle"
                 THEN changeState(z1, "chase")
                 ELSE z1

\* Zombie.processStateMachine(deltaTime): the zombie after it and the timers
\* processAttackState sets at the clock's time
processStateMachine(z0, p, time) ==
    LET z == IF z0.state = "idle" /\ z0.canSeePlayer THEN changeState(z0, "chase") ELSE z0
        distanceToPlayer == DistanceTo(z.position, p.position)
    IN  IF z.state = "chase"
        THEN [zombie |-> IF z.canSeePlayer /\ distanceToPlayer <= attackRange
                         THEN changeState(z, "attack")
                         ELSE z,
              timers |-> {}]
        ELSE IF z.state = "attack"
        THEN IF distanceToPlayer > RDiv(attackRange * 12, 10)
             THEN [zombie |-> changeState(z, "chase"), timers |-> {}]
             ELSE IF z.timeSinceSpawn - z.lastAttackTime > attackCooldown
             THEN [zombie |-> [z EXCEPT !.lastAttackTime = z.timeSinceSpawn],
                   timers |-> {Timer("damage", z.name, time + damageDelay),
                               Timer("chase", z.name, time + chaseDelay)}]
             ELSE [zombie |-> z, timers |-> {}]
        ELSE [zombie |-> z, timers |-> {}]

\* Zombie.update(deltaTime)
zombieUpdate(z, deltaTime, p, time) ==
    IF ~z.enabled \/ ~z.isAlive THEN [zombie |-> z, timers |-> {}]
    ELSE processStateMachine(
             updatePerception([z EXCEPT !.timeSinceSpawn = @ + deltaTime], deltaTime, p),
             p, time)

\* EntityManager.update(deltaTime) over entities[1..n]: the heap after it and
\* the timers set
RECURSIVE updateEach(_, _, _, _, _, _)
updateEach(objs, names, n, deltaTime, p, time) ==
    IF n = 0 THEN [objects |-> objs, timers |-> {}]
    ELSE LET before == updateEach(objs, names, n - 1, deltaTime, p, time)
             e == before.objects[names[n]]
         IN  IF e.type = "zombie" /\ e.enabled
             THEN LET u == zombieUpdate(e, deltaTime, p, time)
                  IN  [objects |-> [before.objects EXCEPT ![names[n]] = u.zombie],
                       timers |-> before.timers \cup u.timers]
             ELSE before

\* EnemyManager.update: this.enemies.filter(enemy => enemy.isAlive)
RECURSIVE AliveOf(_, _)
AliveOf(objs, enemies) ==
    IF enemies = <<>> THEN <<>>
    ELSE (IF objs[Head(enemies)].isAlive THEN <<Head(enemies)>> ELSE <<>>)
             \o AliveOf(objs, Tail(enemies))

\* the gaps between two frames: 1/30 s and a second and a half
FrameGaps == {frameCap, Milli(1500)}

\* where the frame's physics leaves the player: 1 and 3 from the zombie
PlayerSpots == {VAdd(ZombieBody.position, Vec(0, 0, k * Unit)) : k \in {1, 3}}

\* the damage that zombie.takeDamage(amount) is called with
HitAmounts == {50}

MaxFrames == 5

\* the player as Player.constructor leaves it, with the health it has left
PlayerOf(health) ==
    [exists |-> TRUE, physicsBody |-> PlayerBody, position |-> PlayerBody.position,
     health |-> health, maxHealth |-> 100, isDead |-> FALSE, lastDamageTime |-> 0]

\* a game three seconds old: the map is loaded, a zombie spawned by
\* spawnZombie has lived for 1.2 s, the player is whole or was hit four times
InitCombat ==
    /\ \E health \in {100, 20} : player = PlayerOf(health)
    /\ LET g == addEntity(entityInit(Game(("zombie1" :> Zombie("zombie1")),
                                          NewEntityManager, <<PlayerBody>>, <<>>),
                                     "zombie1"),
                          "zombie1")
       IN  /\ objects = [g.objects EXCEPT !["zombie1"].timeSinceSpawn = Milli(1200)]
           /\ entityManager = g.entityManager
           /\ bodies = g.bodies /\ staticBodies = g.staticBodies
    /\ tasks = {}
    /\ engine = [isRunning |-> TRUE, isPaused |-> FALSE,
                 currentMap |-> [cls |-> "map", id |-> "example_map"],
                 enemies |-> <<"zombie1">>]
    /\ now = Milli(3000)
    /\ last = [op |-> "start", arg |-> Null, removed |-> <<>>]
    /\ prev = [op |-> "none", arg |-> Null]
    /\ planetBody = NoPlanet /\ accumulator = 0 /\ pc = "idle" /\ substep = 0
    /\ stepDts = <<>> /\ frame = 0 /\ budget = MaxFrames /\ run = 0 /\ probe = 0
    /\ weapon = 0 /\ assets = 0

\* Engine.gameLoop(timestamp), gap after the frame before it.  What
\* physics.update does to the bodies is left to the runs of update(); its
\* outcome here is the spot the player's body is at when the frame is over.
GameLoop(gap, spot) ==
    /\ engine.isRunning /\ budget > 0
    /\ now' = now + gap
    /\ budget' = budget - 1
    /\ IF engine.isPaused
       THEN UNCHANGED <<objects, player, tasks, engine>>
       ELSE LET deltaTime == IF gap < frameCap THEN gap ELSE frameCap
                p == IF player.isDead THEN player ELSE [player EXCEPT !.position = spot]
                u == updateEach(objects, entityManager.entities,
                                Len(entityManager.entities), deltaTime, p, now')
            IN  /\ player' = p
                /\ objects' = u.objects
                /\ tasks' = tasks \cup u.timers
                /\ engine' = [engine EXCEPT !.enemies = AliveOf(u.objects, @)]
    /\ Did("gameLoop", Null, <<>>)
    /\ UNCHANGED <<bodies, staticBodies, planetBody, accumulator, pc, substep,
                   stepDts, frame, run, probe, entityManager, weapon, assets>>

\* a timer's callback, run when it is due or later
Timeout(t) ==
    /\ t \in tasks /\ t.kind \in {"damage", "chase", "respawn"} /\ t.due <= now
    /\ IF t.kind = "damage"
       THEN LET z == objects[t.entity]
                r == IF z.state = "attack"
                        /\ DistanceTo(z.position, player.position) <= attackRange
                     THEN takeDamage(player, 20, now)
                     ELSE [player |-> player, timers |-> {}]
            IN  /\ player' = r.player
                /\ tasks' = (tasks \ {t}) \cup r.timers
                /\ UNCHANGED objects
       ELSE IF t.kind = "chase"
       THEN /\ objects' = [objects EXCEPT ![t.entity] =
                               IF @.state = "attack" THEN changeState(@, "chase") ELSE @]
            /\ tasks' = tasks \ {t}
            /\ UNCHANGED player
       ELSE /\ player' = respawn(player)
            /\ tasks' = tasks \ {t}
            /\ UNCHANGED objects
    /\ Did(t.kind, t.entity, <<>>)
    /\ UNCHANGED <<bodies, staticBodies, planetBody, accumulator, pc, substep,
                   stepDts, frame, budget, run, probe, entityManager, engine,
                   weapon, assets, now>>

\* Engine.togglePause()
TogglePause ==
    /\ engine' = [engine EXCEPT !.isPaused = ~@]
    /\ Did("togglePause", Null, <<>>)
    /\ UNCHANGED <<bodies, staticBodies, planetBody, accumulator, player, pc,
                   substep, stepDts, frame, budget, run, probe, objects,
                   entityManager, tasks, weapon, assets, now>>

\* zombie.takeDamage(amount)
ZombieTakeDamage(name, amount) ==
    /\ name \in DOMAIN objects /\ objects[name].type = "zombie"
    /\ objects[name].health > 0
    /\ objects' = [objects EXCEPT ![name] = zombieTakeDamage(@, amount)]
    /\ Did("takeDamage", name, <<>>)
    /\ UNCHANGED <<bodies, staticBodies, planetBody, accumulator, player, pc,
                   substep, stepDts, frame, budget, run, probe, entityManager,
                   tasks, engine, weapon, assets, now>>

NextCombat ==
    \/ \E gap \in FrameGaps, spot \in PlayerSpots : GameLoop(gap, spot)
    \/ \E t \in tasks : Timeout(t)
    \/ TogglePause
    \/ \E name \in DOMAIN objects, amount \in HitAmounts : ZombieTakeDamage(name, amount)
    \/ UnloadCurrentMap

SpecCombat == InitCombat /\ [][NextCombat]_vars

\* C26: while the engine is paused no gameplay state changes: the player's
\* health does not go down and no zombie changes state, in any frame and in
\* any callback of a timer pending from before the pause.
C26_PausedGameIsFrozen ==
    [][(engine.isPaused /\ last'.op \in {"gameLoop", "damage", "chase", "respawn"})
          => /\ player'.health >= player.health
             /\ \A name \in DOMAIN objects :
                    objects[name].type = "zombie"
                       => objects'[name].state = objects[name].state]_vars

\* a zombie that has died or has been destroyed
Gone(z) == z.state = "death" \/ ~z.enabled

\* C27: once a zombie has died (state death) or has been destroyed, it never
\* again damages the player and never changes state, in any frame and in any
\* callback of an attack timer of its that is pending.
C27_GoneZombieIsInert ==
    [][\A name \in DOMAIN objects :
          (/\ objects[name].type = "zombie" /\ Gone(objects[name])
           /\ last'.op \in {"gameLoop", "damage", "chase"})
             => /\ objects'[name].state = objects[name].state
                /\ ~(last'.op = "damage" /\ last'.arg = name
                        /\ player'.health < player.health)]_vars

-----------------------------------------------------------------------------
(* The weapon's ammunition (SpecWeapon)                                    *)

\* options.x || d
OrDefault(x, d) == IF x = 0 THEN d ELSE x

\* new Weapon(options); fireInterval and reloadTime in ticks
Weapon(options) ==
    [isEquipped      |-> FALSE,
     fireInterval    |-> Unit \div OrDefault(options.fireRate, 10),
     lastFireTime    |-> 0,
     isFiring        |-> FALSE,
     currentAmmo     |-> OrDefault(options.ammoCapacity, 30),
     maxAmmo         |-> OrDefault(options.ammoCapacity, 30),
     reserveAmmo     |-> OrDefault(options.reserveAmmo, 90),
     isReloading     |-> FALSE,
     reloadTime      |-> 2 * Unit,
     reloadStartTime |-> 0]

\* what a call leaves of the weapon, and the value it returns
Returned(w, ret) == [weapon |-> w, ret |-> ret]

\* Weapon.equip(owner), Weapon.unequip()
equip(w) == [w EXCEPT !.isEquipped = TRUE]
unequip(w) == [w EXCEPT !.isEquipped = FALSE]

\* Weapon.startFire(), Weapon.stopFire()
startFire(w) == [w EXCEPT !.isFiring = TRUE]
stopFire(w) == [w EXCEPT !.isFiring = FALSE]

\* Weapon.fire(): the ammunition it takes
fire(w) == [w EXCEPT !.currentAmmo = @ - 1]

\* Weapon.tryReload() at currentTime
tryReload(w, currentTime) ==
    IF w.isReloading THEN Returned(w, FALSE)
    ELSE IF w.currentAmmo >= w.maxAmmo THEN Returned(w, FALSE)
    ELSE IF w.reserveAmmo <= 0 THEN Returned(w, FALSE)
    ELSE Returned([w EXCEPT !.isReloading = TRUE, !.reloadStartTime = currentTime], TRUE)

\* Weapon.tryFire() at currentTime
tryFire(w, currentTime) ==
    IF currentTime - w.lastFireTime < w.fireInterval THEN Returned(w, FALSE)
    ELSE IF w.isReloading THEN Returned(w, FALSE)
    ELSE IF w.currentAmmo <= 0 THEN Returned(tryReload(w, currentTime).weapon, FALSE)
    ELSE Returned([fire(w) EXCEPT !.lastFireTime = currentTime], TRUE)

\* a reload that takes what the magazine lacks, whatever the reserve holds
completeReloadFull(w) ==
    LET ammoNeeded == w.maxAmmo - w.currentAmmo
    IN  [w EXCEPT !.currentAmmo = @ + ammoNeeded,
                  !.reserveAmmo = @ - ammoNeeded,
                  !.isReloading = FALSE]

\* Weapon.completeReload()
completeReload(w) ==
    LET ammoNeeded == w.maxAmmo - w.currentAmmo
        ammoToAdd == Min(ammoNeeded, w.reserveAmmo)
    IN  [w EXCEPT !.currentAmmo = @ + ammoToAdd,
                  !.reserveAmmo = @ - ammoToAdd,
                  !.isReloading = FALSE]

\* Weapon.update(deltaTime) at currentTime: the weapon after it, and whether it
\* fired
weaponUpdate(w, currentTime) ==
    IF ~w.isEquipped THEN Returned(w, FALSE)
    ELSE LET f == IF w.isFiring THEN tryFire(w, currentTime) ELSE Returned(w, FALSE)
             w1 == f.weapon
         IN  IF w1.isReloading /\ currentTime - w1.reloadStartTime >= w1.reloadTime
             THEN Returned(completeReload(w1), f.ret)
             ELSE Returned(w1, f.ret)

\* the magazines and reserves of the maps' weapons (0: the option is left out)
AmmoCapacities == {2, 0}
ReserveAmmos == {1, 3, 0}

\* the gaps between two frames: 1/30 s and two seconds
WeaponGaps == {frameCap, 2 * Unit}

MaxUpdates == 4

InitWeapon ==
    /\ WorldIdle /\ planetBody = NoPlanet /\ accumulator = 0 /\ pc = "idle"
    /\ substep = 0 /\ stepDts = <<>> /\ frame = 0 /\ run = 0 /\ probe = 0
    /\ budget = MaxUpdates
    /\ objects = <<>> /\ entityManager = 0 /\ tasks = {} /\ engine = 0 /\ assets = 0
    /\ now = Milli(3000)
    /\ \E capacity \in AmmoCapacities, reserve \in ReserveAmmos :
          weapon = Weapon([fireRate |-> 0, ammoCapacity |-> capacity,
                           reserveAmmo |-> reserve])

\* a call on the weapon that leaves w and returns ret
Called(op, w, ret) ==
    /\ weapon' = w
    /\ last' = [op |-> op, arg |-> Null, ret |-> ret]
    /\ UNCHANGED <<bodies, staticBodies, planetBody, accumulator, player, pc,
                   substep, stepDts, frame, run, prev, probe, objects,
                   entityManager, tasks, engine, assets>>

Equip == Called("equip", equip(weapon), Null) /\ UNCHANGED <<now, budget>>

Unequip == Called("unequip", unequip(weapon), Null) /\ UNCHANGED <<now, budget>>

StartFire == Called("startFire", startFire(weapon), Null) /\ UNCHANGED <<now, budget>>

StopFire == Called("stopFire", stopFire(weapon), Null) /\ UNCHANGED <<now, budget>>

TryFire ==
    /\ LET r == tryFire(weapon, now) IN Called("tryFire", r.weapon, r.ret)
    /\ UNCHANGED <<now, budget>>

TryReload ==
    /\ LET r == tryReload(weapon, now) IN Called("tryReload", r.weapon, r.ret)
    /\ UNCHANGED <<now, budget>>

CompleteReload ==
    /\ Called("completeReload", completeReload(weapon), Null)
    /\ UNCHANGED <<now, budget>>

\* WeaponManager.update(deltaTime) in the frame that comes gap after the last
WeaponUpdate(gap) ==
    /\ budget > 0
    /\ budget' = budget - 1
    /\ now' = now + gap
    /\ LET r == weaponUpdate(weapon, now') IN Called("update", r.weapon, r.ret)

NextWeapon ==
    \/ Equip \/ Unequip \/ StartFire \/ StopFire
    \/ TryFire \/ TryReload \/ CompleteReload
    \/ \E gap \in WeaponGaps : WeaponUpdate(gap)

SpecWeapon == InitWeapon /\ [][NextWeapon]_vars

\* the step fired a shot
Shot == last'.op \in {"tryFire", "update"} /\ last'.ret = TRUE

\* C28: after any sequence of startFire, stopFire, update, tryFire, tryReload,
\* completeReload, equip and unequip: 0 <= currentAmmo <= maxAmmo and
\* reserveAmmo >= 0; a reload keeps currentAmmo + reserveAmmo; a shot lowers
\* currentAmmo by exactly one; no shot is fired while reloading or with an
\* empty magazine.
C28_AmmoAccounting ==
    /\ [](/\ 0 <= weapon.currentAmmo /\ weapon.currentAmmo <= weapon.maxAmmo
          /\ weapon.reserveAmmo >= 0)
    /\ [][/\ weapon'.currentAmmo + weapon'.reserveAmmo
               = weapon.currentAmmo + weapon.reserveAmmo - (IF Shot THEN 1 ELSE 0)
          /\ Shot => /\ weapon'.currentAmmo = weapon.currentAmmo - 1
                     /\ ~weapon.isReloading /\ weapon.currentAmmo > 0
          /\ ~Shot => weapon'.currentAmmo >= weapon.currentAmmo]_vars

\* a reload that took all the reserve had left, short of a full magazine, and
\* a shot fired after it
C28_Witness ==
    /\ last.op = "update" /\ last.ret = TRUE
    /\ weapon.reserveAmmo = 0 /\ weapon.currentAmmo = 0 /\ weapon.maxAmmo = 2
    /\ ~weapon.isReloading

-----------------------------------------------------------------------------
(* The asset manager's loads (SpecAssets)                                  *)

\* the kinds of asset followed, and the ids loaded
AssetKinds == {"texture", "animation", "json"}
AssetIds == {"zombie"}

\* the key of loadingPromises: kind + '_' + id
AssetKey(kind, id) == <<kind, id>>

\* new AssetManager(): the caches (textures, animations, jsonData) as one set of
\* keys, loadingPromises with the state of each promise, and the number of
\* times a loader (textureLoader.load, fbxLoader.load, fetch) was called
NewAssetManager == [loaded |-> {}, loadingPromises |-> <<>>, requests |-> 0]

\* a call of a loader that has not answered yet
Request(key, n) == [kind |-> "loader", asset |-> key, request |-> n]

\* how a loader can answer: with the asset, with an error, and for an FBX file
\* with an object that holds no animation
Answers(kind) ==
    IF kind = "animation" THEN {"asset", "error", "noAnimations"} ELSE {"asset", "error"}

\* loadTexture / loadAnimation / loadJSON (id, path), up to the return: the
\* manager after it, and the loader calls it made
load(am, key) ==
    IF key \in am.loaded THEN [assets |-> am, requests |-> {}]
    ELSE IF key \in DOMAIN am.loadingPromises THEN [assets |-> am, requests |-> {}]
    ELSE [assets |-> [am EXCEPT !.loadingPromises = @ @@ (key :> "pending"),
                                !.requests = @ + 1],
          requests |-> {Request(key, am.requests + 1)}]

\* loadingPromises.delete(key)
DeleteKey(promises, key) == [k \in DOMAIN promises \ {key} |-> promises[k]]

\* the callbacks handed to the loader: onLoad, onError
settle(am, key, answer) ==
    IF answer = "asset"
    THEN [am EXCEPT !.loaded = @ \cup {key},
                    !.loadingPromises = DeleteKey(@, key)]
    ELSE IF answer = "error"
    THEN [am EXCEPT !.loadingPromises = DeleteKey(@, key)]
    ELSE IF key \in DOMAIN am.loadingPromises
    THEN [am EXCEPT !.loadingPromises[key] = "rejected"]
    ELSE am

\* unloadTexture / unloadAnimation / unloadJSON (id)
unload(am, key) == [am EXCEPT !.loaded = @ \ {key}]

MaxRequests == 4

InitAssets ==
    /\ WorldIdle /\ planetBody = NoPlanet /\ accumulator = 0 /\ pc = "idle"
    /\ substep = 0 /\ stepDts = <<>> /\ frame = 0 /\ budget = 0 /\ run = 0
    /\ probe = 0
    /\ objects = <<>> /\ entityManager = 0 /\ tasks = {} /\ engine = 0
    /\ weapon = 0 /\ now = 0
    /\ assets = NewAssetManager

AssetStep(op, key, am, ts) ==
    /\ assets' = am
    /\ tasks' = ts
    /\ last' = [op |-> op, arg |-> key, ret |-> Null]
    /\ UNCHANGED <<bodies, staticBodies, planetBody, accumulator, player, pc,
                   substep, stepDts, frame, budget, run, prev, probe, objects,
                   entityManager, engine, weapon, now>>

\* assetManager.loadTexture(id, path), loadAnimation, loadJSON
Load(kind, id) ==
    /\ assets.requests < MaxRequests
    /\ LET r == load(assets, AssetKey(kind, id))
       IN  AssetStep("load", AssetKey(kind, id), r.assets, tasks \cup r.requests)

\* the loader answers a call
Settle(t, answer) ==
    /\ t \in tasks /\ t.kind = "loader"
    /\ answer \in Answers(t.asset[1])
    /\ AssetStep(answer, t.asset, settle(assets, t.asset, answer), tasks \ {t})

\* assetManager.unloadTexture(id), unloadAnimation, unloadJSON
Unload(kind, id) ==
    /\ AssetKey(kind, id) \in assets.loaded
    /\ AssetStep("unload", AssetKey(kind, id), unload(assets, AssetKey(kind, id)), tasks)

NextAssets ==
    \/ \E kind \in AssetKinds, id \in AssetIds : Load(kind, id)
    \/ \E t \in tasks, answer \in {"asset", "error", "noAnimations"} : Settle(t, answer)
    \/ \E kind \in AssetKinds, id \in AssetIds : Unload(kind, id)

SpecAssets == InitAssets /\ [][NextAssets]_vars

\* the loader calls for key that have not been answered
InFlight(key) == {t \in tasks : t.kind = "loader" /\ t.asset = key}

\* C29: for every kind and id the loader is called at most once while a load
\* is in flight or has succeeded, and once a load has settled, in success or
\* in any failure, loadingPromises holds no entry for it, so that a failed
\* load can be tried again.
C29_LoadsSettleClean ==
    \A kind \in AssetKinds, id \in AssetIds :
        LET key == AssetKey(kind, id)
        IN  /\ Cardinality(InFlight(key)) <= 1
            /\ key \in assets.loaded => InFlight(key) = {}
            /\ key \in DOMAIN assets.loadingPromises => InFlight(key) # {}

-----------------------------------------------------------------------------
(* The player's jump state (SpecJump), on the flat world                   *)

\* Player: jumpDuration 350 ms, jumpBufferWindow 200 ms, coyoteTime 150 ms,
\* the 100 ms between two jumps, jumpForce 10, maxJumps 2
jumpDuration == Milli(350)
jumpBufferWindow == Milli(200)
coyoteTime == Milli(150)
jumpCooldown == Milli(100)
jumpForce == 10 * Unit
maxJumps == 2

\* Player.constructor: the fields of the jump, with those of PlayerOf;
\* hasDirection is movement.moveDirection.lengthSq() > 0, hasInput is
\* moveInput.lengthSq() > 0
Jumper ==
    [isJumping |-> FALSE, jumpCount |-> 0, jumpTimeStart |-> 0, lastJumpTime |-> 0,
     jumpRequested |-> FALSE, jumpBufferTime |-> 0, lastGroundedTime |-> 0,
     onGround |-> FALSE, hasInput |-> FALSE, hasDirection |-> FALSE]
        @@ PlayerOf(100)

\* Movement.applyJumpBoost()
applyJumpBoost(p) ==
    IF p.hasDirection /\ p.onGround THEN [p EXCEPT !.isJumping = TRUE] ELSE p

\* Player.processJump() at currentTime: the player after it, and whether it
\* jumped
processJump(p, currentTime) ==
    LET inCoyoteTime == currentTime - p.lastGroundedTime < coyoteTime
        canFirstJump == p.onGround \/ inCoyoteTime
    IN  IF currentTime - p.lastJumpTime < jumpCooldown
        THEN [player |-> p, ret |-> FALSE]
        ELSE IF canFirstJump /\ p.jumpCount = 0
        THEN [player |-> applyJumpBoost(
                            [p EXCEPT !.isJumping = TRUE,
                                      !.jumpTimeStart = currentTime,
                                      !.physicsBody.velocity[2] = jumpForce,
                                      !.jumpCount = 1,
                                      !.lastJumpTime = currentTime]),
              ret |-> TRUE]
        ELSE IF ~canFirstJump /\ p.jumpCount < maxJumps
        THEN [player |-> [p EXCEPT !.isJumping = TRUE,
                                   !.jumpTimeStart = currentTime,
                                   !.physicsBody.velocity[2] = RDiv(jumpForce * 9, 10),
                                   !.jumpCount = @ + 1,
                                   !.lastJumpTime = currentTime],
              ret |-> TRUE]
        ELSE [player |-> p, ret |-> FALSE]

\* Movement.update(deltaTime): what it does to the jump state (the horizontal
\* velocity it sets is not followed)
movementUpdate(p) ==
    IF p.hasInput
    THEN LET p1 == [p EXCEPT !.hasDirection = TRUE]
         IN  IF p1.isJumping /\ p1.jumpCount = 1
             THEN [p1 EXCEPT !.isJumping = FALSE]
             ELSE p1
    ELSE p

\* Player.update(deltaTime) at currentTime, the physics having left the body
\* on the ground or off it
playerUpdate(p, currentTime, bodyOnGround) ==
    IF p.isDead THEN p
    ELSE LET p1 == IF p.isJumping /\ currentTime - p.jumpTimeStart > jumpDuration
                   THEN [p EXCEPT !.isJumping = FALSE]
                   ELSE p
             wasOnGround == p1.onGround
             p2 == [p1 EXCEPT !.onGround = bodyOnGround,
                              !.physicsBody.onGround = bodyOnGround,
                              !.jumpCount = IF bodyOnGround /\ ~wasOnGround THEN 0 ELSE @,
                              !.lastGroundedTime =
                                  IF ~bodyOnGround /\ wasOnGround THEN currentTime ELSE @]
             p3 == IF ~p2.jumpRequested THEN p2
                   ELSE IF currentTime - p2.jumpBufferTime < jumpBufferWindow
                   THEN LET j == processJump(p2, currentTime)
                        IN  IF j.ret
                            THEN [j.player EXCEPT !.jumpRequested = FALSE,
                                                  !.lastGroundedTime = 0]
                            ELSE j.player
                   ELSE [p2 EXCEPT !.jumpRequested = FALSE]
         IN  movementUpdate(p3)

\* the gaps between two frames: 1/60 s, 1/30 s and a quarter of a second
JumpGaps == {Unit \div 60, frameCap, Milli(250)}

MaxJumpFrames == 5

InitJump ==
    /\ bodies = <<>> /\ staticBodies = <<>> /\ player = Jumper
    /\ last = NoOp /\ prev = [op |-> "none", arg |-> Null]
    /\ planetBody = NoPlanet /\ accumulator = 0 /\ pc = "idle"
    /\ substep = 0 /\ stepDts = <<>> /\ frame = 0 /\ run = 0 /\ probe = 0
    /\ budget = MaxJumpFrames
    /\ objects = <<>> /\ entityManager = 0 /\ tasks = {} /\ weapon = 0 /\ assets = 0
    /\ engine = [isRunning |-> TRUE, isPaused |-> FALSE, currentMap |-> Null,
                 enemies |-> <<>>]
    /\ now = Milli(3000)

PlayerStep(op, p) ==
    /\ player' = p
    /\ last' = [op |-> op, arg |-> Null, ret |-> Null]
    /\ UNCHANGED <<bodies, staticBodies, planetBody, accumulator, pc, substep,
                   stepDts, frame, run, prev, probe, objects, entityManager,
                   tasks, engine, weapon, assets>>

\* the handlers of KeyW going down and up
KeyW(down) ==
    /\ PlayerStep("KeyW", [player EXCEPT !.hasInput = down])
    /\ UNCHANGED <<now, budget>>

\* the handler of Space going down
KeySpace ==
    /\ PlayerStep("Space", [player EXCEPT !.jumpRequested = TRUE, !.jumpBufferTime = now])
    /\ UNCHANGED <<now, budget>>

\* Engine.gameLoop: player.update(deltaTime), gap after the frame before
PlayerUpdate(gap, bodyOnGround) ==
    /\ budget > 0
    /\ budget' = budget - 1
    /\ now' = now + gap
    /\ PlayerStep("update", playerUpdate(player, now', bodyOnGround))

NextJump ==
    \/ \E down \in BOOLEAN : KeyW(down)
    \/ KeySpace
    \/ \E gap \in JumpGaps, bodyOnGround \in BOOLEAN : PlayerUpdate(gap, bodyOnGround)

SpecJump == InitJump /\ [][NextJump]_vars

\* C30: after a successful jump player.isJumping stays true until jumpDuration
\* (350 ms) has passed since the jump started, with movement input or without.
C30_JumpStateLasts ==
    (player.jumpTimeStart > 0 /\ now - player.jumpTimeStart <= jumpDuration)
        => player.isJumping

=============================================================================
